---- MODULE Spec2Model ----
(***************************************************************************)
(* Model of the JSON tool's structural diff engine:                        *)
(*   - compareJson (src/utils/diffUtils.ts), the flat differ               *)
(*   - generateDiff and the line wrapper of compare (the diff view), the   *)
(*     structural renderer                                                 *)
(*   - the diff view, the history store (useHistory), the escape          *)
(*     utilities, the toasts (useToast), the JSON editor and the two-way   *)
(*     JSON editor                                                         *)
(* JSON values are tagged records.  Strings are TLA+ strings, paths are    *)
(* built by concatenation exactly as the template literals build them; the *)
(* texts of the JSON editors are sequences of characters.                  *)
(***************************************************************************)
EXTENDS Integers, Sequences, FiniteSets, TLC

VARIABLES original, modified, path, pc, results, reversed, selfResults, diffLines

\* The call stack and the output so far of a comparison run step by step
VARIABLES walker, stack, out

\* The diff view: the two editors' texts, the per-side parse errors, the
\* compared flag, the two history lists, the last toast and the clock
VARIABLES originalJson, modifiedJson, error, hasCompared,
          originalHistory, modifiedHistory, toast, now

walkVars == <<walker, stack, out>>

viewVars == <<originalJson, modifiedJson, error, hasCompared,
              originalHistory, modifiedHistory, toast, now>>

\* The history stores: the in-memory list of every useHistory instance,
\* what localStorage holds under every key, and the calls made so far
VARIABLES stores, storage, calls

storeVars == <<stores, storage, calls>>

\* The escape utilities applied to one string: the string, its escaped
\* form, the unescaped form of that, and how far the round trip has come
VARIABLES escapeIn, escapeOut, unescapeOut, escapePc

escapeVars == <<escapeIn, escapeOut, unescapeOut, escapePc>>

\* useToast: the shared toast list, the id counter and the pending timers
VARIABLES toasts, nextId, timers

toastVars == <<toasts, nextId, timers>>

\* The JSON editor: the two panes, the error, the two flags, the contents of
\* its history list (newest first) and the deferred callbacks of processJson
VARIABLES inputJson, outputJson, editorError, processing, isValidJson,
          editorHistory, pending

editorVars == <<inputJson, outputJson, editorError, processing, isValidJson,
                editorHistory, pending>>

\* The two-way JSON editor beside that: the sync flag, the hash of the last
\* save, the handle of the debounce timer and the timers that are set, the
\* queued watcher jobs, the value every watcher saw last, the nextTick
\* callbacks not yet run, and the last user event with the watcher jobs run
\* since
VARIABLES isSyncing, lastSavedHash, historyDebounceTimer, saveTimers, jobs, watched,
          ticks, event

syncVars == <<isSyncing, lastSavedHash, historyDebounceTimer, saveTimers, jobs, watched,
              ticks, event>>

moreVars == <<escapeVars, toastVars, editorVars, syncVars>>

\* Everything beside the diff engine and the diff view
restVars == <<storeVars, moreVars>>

vars == <<original, modified, path, pc, results, reversed, selfResults, diffLines,
          walkVars, viewVars, restVars>>

(***************************************************************************)
(* Bounds of the model.                                                    *)
(***************************************************************************)
\* Largest number of nodes (scalars and containers) the two compared
\* documents hold together.
MaxNodes == 5

(***************************************************************************)
(* The JavaScript values the differ can meet.                              *)
(***************************************************************************)
Null == [t |-> "null"]

Undefined == [t |-> "undefined"]

Num(n) == [t |-> "number", n |-> n]

Str(s) == [t |-> "string", s |-> s]

Arr(items) == [t |-> "array", items |-> items]

\* entries: the own properties in Object.keys order, each [k |-> key, v |-> value]
Obj(entries) == [t |-> "object", entries |-> entries]

\* A built-in function object, met only through an inherited property.
Fn(name) == [t |-> "function", name |-> name]

\* typeof v
TypeOf(v) ==
  CASE v.t = "null" -> "object"
    [] v.t = "array" -> "object"
    [] v.t = "object" -> "object"
    [] OTHER -> v.t

\* Array.isArray(v)
IsArray(v) == v.t = "array"

\* Mutant: only null is tested, an absent (undefined) argument is not
IsNullishOnlyNull(v) == v.t = "null"

\* v === null || v === undefined
IsNullish(v) == v.t \in {"null", "undefined"}

\* Mutant: the comparison inverted (=== written for !==)
StrictEqInverted(a, b) == ~(a.t = b.t /\ a = b)

\* a === b on two primitives (or on null); objects are never compared by
\* the code with ===, functions are compared by identity.
StrictEq(a, b) == a.t = b.t /\ a = b

\* The indices of an array as property names: "0", "1", ...
IndexKeys(n) == [i \in 1..n |-> ToString(i - 1)]

\* Object.keys(v) for an object or an array
ObjectKeys(v) ==
  IF v.t = "array" THEN IndexKeys(Len(v.items))
  ELSE [i \in 1..Len(v.entries) |-> v.entries[i].k]

\* Property names every plain object inherits from Object.prototype
\* (arrays inherit them too, and own "length").
InheritedKeys(v) ==
  {"constructor", "toString", "valueOf", "hasOwnProperty"}
    \cup (IF v.t = "array" THEN {"length"} ELSE {})

Range(s) == {s[i] : i \in 1..Len(s)}

\* key in v  (own or inherited property)
In(key, v) == key \in Range(ObjectKeys(v)) \/ key \in InheritedKeys(v)

\* v[key]
Get(v, key) ==
  IF key \in Range(ObjectKeys(v)) THEN
    LET i == CHOOSE j \in 1..Len(ObjectKeys(v)) : ObjectKeys(v)[j] = key
    IN  IF v.t = "array" THEN v.items[i] ELSE v.entries[i].v
  ELSE IF v.t = "array" /\ key = "length" THEN Num(Len(v.items))
  ELSE IF key = "constructor" THEN Fn(IF v.t = "array" THEN "Array" ELSE "Object")
  ELSE IF key \in InheritedKeys(v) THEN Fn(key)
  ELSE Undefined

RECURSIVE Dedup(_)

\* The sequence with its repetitions kept
DedupMissing(s) == s

\* Array.from(new Set(s)): first occurrences, in order
Dedup(s) ==
  IF s = <<>> THEN <<>>
  ELSE LET front == Dedup(SubSeq(s, 1, Len(s) - 1))
           last  == s[Len(s)]
       IN  IF last \in Range(front) THEN front ELSE Append(front, last)

Max(a, b) == IF a >= b THEN a ELSE b

(***************************************************************************)
(* compareJson                                                             *)
(***************************************************************************)
\* path || 'root'
OrRoot(p) == IF p # "" THEN p ELSE "root"

Added(p, v) == [type |-> "added", path |-> p, newValue |-> v]

\* Mutant: a removed record that also carries a newValue field
RemovedWithNewValue(p, v) ==
  [type |-> "removed", path |-> p, oldValue |-> v, newValue |-> Undefined]

Removed(p, v) == [type |-> "removed", path |-> p, oldValue |-> v]

\* Mutant: the two values stored in each other's field
ModifiedSwapped(p, old, new) ==
  [type |-> "modified", path |-> p, oldValue |-> new, newValue |-> old]

Modified(p, old, new) == [type |-> "modified", path |-> p, oldValue |-> old, newValue |-> new]

\* Mutant: indices counted from one
ItemPathOneBased(p, i) ==
  IF p # "" THEN p \o "[" \o ToString(i + 1) \o "]" ELSE "[" \o ToString(i + 1) \o "]"

\* path ? `${path}[${i}]` : `[${i}]`
ItemPath(p, i) == IF p # "" THEN p \o "[" \o ToString(i) \o "]" ELSE "[" \o ToString(i) \o "]"

\* path ? `${path}.${key}` : key
KeyPath(p, key) == IF p # "" THEN p \o "." \o key ELSE key

RECURSIVE compareJson(_, _, _)
RECURSIVE ArrayLoop(_, _, _, _)
RECURSIVE ObjectLoop(_, _, _, _)

\* Mutant: the loop runs to original.length instead of maxLength
RECURSIVE ArrayLoopOriginalLength(_, _, _, _)
ArrayLoopOriginalLength(orig, mod, p, i) ==
  IF i >= Len(orig.items) THEN <<>>
  ELSE LET itemPath == ItemPath(p, i)
           step == IF i >= Len(mod.items) THEN <<Removed(itemPath, orig.items[i + 1])>>
                   ELSE compareJson(orig.items[i + 1], mod.items[i + 1], itemPath)
       IN  step \o ArrayLoopOriginalLength(orig, mod, p, i + 1)

\* the for loop over i = 0 .. maxLength-1 of the array branch
ArrayLoop(orig, mod, p, i) ==
  IF i >= Max(Len(orig.items), Len(mod.items)) THEN <<>>
  ELSE LET itemPath == ItemPath(p, i)
           step == IF i >= Len(orig.items) THEN <<Added(itemPath, mod.items[i + 1])>>
                   ELSE IF i >= Len(mod.items) THEN <<Removed(itemPath, orig.items[i + 1])>>
                   ELSE compareJson(orig.items[i + 1], mod.items[i + 1], itemPath)
       IN  step \o ArrayLoop(orig, mod, p, i + 1)

\* the for loop over the keys of allKeys of the object branch
ObjectLoop(orig, mod, p, keys) ==
  IF keys = <<>> THEN <<>>
  ELSE LET key == Head(keys)
           keyPath == KeyPath(p, key)
           step == IF ~In(key, orig) THEN <<Added(keyPath, Get(mod, key))>>
                   ELSE IF ~In(key, mod) THEN <<Removed(keyPath, Get(orig, key))>>
                   ELSE compareJson(Get(orig, key), Get(mod, key), keyPath)
       IN  step \o ObjectLoop(orig, mod, p, Tail(keys))

compareJson(orig, mod, p) ==
  IF IsNullish(orig) THEN
    IF ~IsNullish(mod) THEN <<Added(OrRoot(p), mod)>> ELSE <<>>
  ELSE IF IsNullish(mod) THEN <<Removed(OrRoot(p), orig)>>
  ELSE IF TypeOf(orig) # TypeOf(mod) THEN <<Modified(OrRoot(p), orig, mod)>>
  ELSE IF TypeOf(orig) # "object" THEN
    IF ~StrictEq(orig, mod) THEN <<Modified(OrRoot(p), orig, mod)>> ELSE <<>>
  ELSE IF IsArray(orig) /\ IsArray(mod) THEN ArrayLoop(orig, mod, p, 0)
  ELSE ObjectLoop(orig, mod, p, Dedup(ObjectKeys(orig) \o ObjectKeys(mod)))

(***************************************************************************)
(* generateDiff and the line wrapper of the diff view's compare            *)
(***************************************************************************)
\* '  '.repeat(n)
RECURSIVE Repeat(_, _)
Repeat(str, n) == IF n <= 0 THEN "" ELSE str \o Repeat(str, n - 1)

\* parts.join(sep)
RECURSIVE Join(_, _)
Join(parts, sep) ==
  IF parts = <<>> THEN ""
  ELSE IF Len(parts) = 1 THEN parts[1]
  ELSE parts[1] \o sep \o Join(Tail(parts), sep)

\* JSON.stringify(v): the compact text; a function or undefined has no
\* JSON text (the call returns undefined, which a template prints as
\* the word undefined, and which is the text of no JSON value)
RECURSIVE Stringify(_)
Stringify(v) ==
  CASE v.t = "null" -> "null"
    [] v.t = "number" -> ToString(v.n)
    [] v.t = "string" -> "\"" \o v.s \o "\""
    [] v.t = "array" -> "[" \o Join([i \in 1..Len(v.items) |-> Stringify(v.items[i])], ",") \o "]"
    [] v.t = "object" ->
         "{" \o Join([i \in 1..Len(v.entries) |->
                        "\"" \o v.entries[i].k \o "\":" \o Stringify(v.entries[i].v)], ",") \o "}"
    [] OTHER -> "undefined"

\* The property names of the model in the order Array.prototype.sort()
\* puts them (UTF-16 code units): digits before letters, a prefix first.
SortOrder == <<"0", "1", "2", "3", "4", "5", "6", "7", "8", "9",
               "a", "a.a", "b", "constructor">>

\* The keys left in insertion order
SortMissing(keys) == keys

\* keys.sort()
Sort(keys) == SelectSeq(SortOrder, LAMBDA k : k \in Range(keys))

\* parseInt(key) of an index name
ParseInt(key) == CHOOSE i \in 0..9 : ToString(i) = key

AddedLine(key, indent, content, value) ==
  [type |-> "added", key |-> key, indent |-> indent, content |-> content, newValue |-> value]

RemovedLine(key, indent, content, value) ==
  [type |-> "removed", key |-> key, indent |-> indent, content |-> content, oldValue |-> value]

ModifiedLine(key, indent, content, old, new) ==
  [type |-> "modified", key |-> key, indent |-> indent, content |-> content,
   oldValue |-> old, newValue |-> new]

UnchangedLine(key, indent, content) ==
  [type |-> "unchanged", key |-> key, indent |-> indent, content |-> content]

StructuralLine(indent, content) ==
  [type |-> "unchanged", indent |-> indent, content |-> content, isStructural |-> TRUE]

RECURSIVE generateDiff(_, _, _)
RECURSIVE DiffLoop(_, _, _, _)

\* the for loop over allKeys of generateDiff
DiffLoop(orig, mod, indent, keys) ==
  IF keys = <<>> THEN <<>>
  ELSE
    LET key == Head(keys)
        indentStr == Repeat("  ", indent)
        isArray == IsArray(orig) /\ IsArray(mod)
        origVal == IF isArray
                     THEN (IF ParseInt(key) < Len(orig.items) THEN orig.items[ParseInt(key) + 1] ELSE Undefined)
                     ELSE Get(orig, key)
        modVal == IF isArray
                    THEN (IF ParseInt(key) < Len(mod.items) THEN mod.items[ParseInt(key) + 1] ELSE Undefined)
                    ELSE Get(mod, key)
        keyDisplay == IF isArray THEN "" ELSE "\"" \o key \o "\": "
        inOriginal == IF isArray THEN ParseInt(key) < Len(orig.items) ELSE In(key, orig)
        inModified == IF isArray THEN ParseInt(key) < Len(mod.items) ELSE In(key, mod)
        step ==
          IF ~inOriginal THEN
            <<AddedLine(key, indent, indentStr \o keyDisplay \o Stringify(modVal), Stringify(modVal))>>
          ELSE IF ~inModified THEN
            <<RemovedLine(key, indent, indentStr \o keyDisplay \o Stringify(origVal), Stringify(origVal))>>
          ELSE IF TypeOf(origVal) # TypeOf(modVal) THEN
            <<ModifiedLine(key, indent, indentStr \o keyDisplay, Stringify(origVal), Stringify(modVal))>>
          ELSE IF TypeOf(origVal) = "object" /\ origVal.t # "null" /\ modVal.t # "null" THEN
            <<StructuralLine(indent, indentStr \o keyDisplay \o (IF IsArray(origVal) THEN "[" ELSE "{"))>>
              \o generateDiff(origVal, modVal, indent + 1)
              \o <<StructuralLine(indent, indentStr \o (IF IsArray(origVal) THEN "]" ELSE "}"))>>
          ELSE IF ~StrictEq(origVal, modVal) THEN
            <<ModifiedLine(key, indent, indentStr \o keyDisplay, Stringify(origVal), Stringify(modVal))>>
          ELSE
            <<UnchangedLine(key, indent, indentStr \o keyDisplay \o Stringify(origVal))>>
    IN  step \o DiffLoop(orig, mod, indent, Tail(keys))

generateDiff(orig, mod, indent) ==
  IF orig.t = "null" /\ mod.t = "null" THEN <<>>
  ELSE IF orig.t = "undefined" /\ mod.t = "undefined" THEN <<>>
  ELSE IF TypeOf(orig) # TypeOf(mod) \/ TypeOf(orig) # "object"
            \/ orig.t = "null" \/ mod.t = "null" THEN <<>>
  ELSE
    LET isArray == IsArray(orig) /\ IsArray(mod)
        allKeys == Dedup(ObjectKeys(orig) \o ObjectKeys(mod))
    IN  DiffLoop(orig, mod, indent, IF isArray THEN allKeys ELSE Sort(allKeys))

\* The wrapper closing with a brace whatever the roots are
CompareLinesBraceClose(origData, modData) ==
  LET isArray == IsArray(origData) /\ IsArray(modData)
  IN  <<StructuralLine(0, IF isArray THEN "[" ELSE "{")>>
        \o generateDiff(origData, modData, 1)
        \o <<StructuralLine(0, "}")>>

\* The lines compare() assigns to diffLines for two parsed documents
CompareLines(origData, modData) ==
  LET isArray == IsArray(origData) /\ IsArray(modData)
  IN  <<StructuralLine(0, IF isArray THEN "[" ELSE "{")>>
        \o generateDiff(origData, modData, 1)
        \o <<StructuralLine(0, IF isArray THEN "]" ELSE "}")>>

(***************************************************************************)
(* The input documents                                                     *)
(***************************************************************************)
\* All insertion orders of j distinct keys of K
KeySeqs(K, j) == {s \in [1..j -> K] : \A a, b \in 1..j : a # b => s[a] # s[b]}

\* The object whose i-th own property is ks[i] with value vs[i]
Zip(ks, vs) == Obj([i \in 1..Len(ks) |-> [k |-> ks[i], v |-> vs[i]]])

\* The sequences of documents that hold m nodes together, each document
\* taken from table (table[k]: the documents of exactly k nodes)
RECURSIVE Tuples(_, _)
Tuples(table, m) ==
  IF m = 0 THEN {<<>>}
  ELSE UNION {{<<d>> \o rest : d \in table[k], rest \in Tuples(table, m - k)} : k \in 1..m}

\* The documents of exactly n nodes (n > 1), given the table for 1..n-1
Containers(U, table, n) ==
  LET children == Tuples(table, n - 1)
  IN  (IF U.arrays THEN {Arr(c) : c \in children} ELSE {})
        \cup UNION {{Zip(ks, c) : ks \in KeySeqs(U.keys, Len(c))} : c \in children}

\* table[k], k in 1..n: the documents of exactly k nodes over the scalars
\* and keys of universe U
RECURSIVE Documents(_, _)
Documents(U, n) ==
  IF n = 1 THEN <<U.scalars \cup {Obj(<<>>)} \cup (IF U.arrays THEN {Arr(<<>>)} ELSE {})>>
  ELSE LET table == Documents(U, n - 1)
       IN  Append(table, Containers(U, table, n))

\* The pairs of documents of at most n nodes together; a whole argument
\* may also be absent (undefined)
Pairs(U, n) ==
  LET table == Documents(U, n - 1)
      root(k) == IF k = 1 THEN table[1] \cup {Undefined} ELSE table[k]
      sizes == {ij \in (1..(n - 1)) \X (1..(n - 1)) : ij[1] + ij[2] <= n}
  IN  UNION {root(ij[1]) \X root(ij[2]) : ij \in sizes}

Plain == [scalars |-> {Null, Num(1), Num(2), Str("x")}, keys |-> {"a", "b"}, arrays |-> TRUE]

PlainPairs == Pairs(Plain, MaxNodes)

\* The comparisons the specification's testable properties name
Examples ==
  { <<Obj(<<>>), Arr(<<>>)>>,
    <<Arr(<<Num(1), Num(2), Num(3)>>), Arr(<<Num(1), Num(2)>>)>>,
    <<Obj(<<[k |-> "a", v |-> Num(1)]>>), Obj(<<[k |-> "b", v |-> Num(2)]>>)>>,
    <<Obj(<<[k |-> "a", v |-> Obj(<<[k |-> "b", v |-> Num(1)]>>)]>>),
      Obj(<<[k |-> "a", v |-> Null]>>)>> }

\* The path argument of the outermost call: the default, or a caller's
Paths == {"", "p"}

\* Documents whose keys hold the path punctuation or name an inherited
\* property
Dotted == [scalars |-> {Num(1)}, keys |-> {"a", "a.a", "constructor"}, arrays |-> FALSE]

DottedPairs == Pairs(Dotted, MaxNodes + 1)

(***************************************************************************)
(* The state machine: one comparison of two documents                      *)
(***************************************************************************)
\* The instances of useHistory and the localStorage keys they persist under
Instances == {"A", "B"}

EditorKey(inst) == "json-diff-original"

StorageKeys == {"tool-history-json-diff-original", "tool-history-json-diff-modified"}

\* No store has been used
StoreIdle ==
  /\ stores = [inst \in Instances |-> <<>>]
  /\ storage = [key \in StorageKeys |-> <<>>]
  /\ calls = 0

\* No string is being escaped
EscapeIdle ==
  /\ escapeIn = <<>>
  /\ escapeOut = <<>>
  /\ unescapeOut = <<>>
  /\ escapePc = "idle"

\* No toast was ever shown
ToastIdle ==
  /\ toasts = <<>>
  /\ nextId = 0
  /\ timers = {}

\* The JSON editor as mounted
EditorIdle ==
  /\ inputJson = <<>>
  /\ outputJson = <<>>
  /\ editorError = <<>>
  /\ processing = FALSE
  /\ isValidJson = FALSE
  /\ editorHistory = <<>>
  /\ pending = <<>>

\* The two-way JSON editor as mounted
SyncIdle ==
  /\ isSyncing = FALSE
  /\ lastSavedHash = <<>>
  /\ historyDebounceTimer = 0
  /\ saveTimers = {}
  /\ jobs = {}
  /\ watched = [ref \in {"inputJson", "outputJson"} |-> <<>>]
  /\ ticks = 0
  /\ event = [kind |-> "mount", text |-> <<>>, runs |-> 0]

MoreIdle == EscapeIdle /\ ToastIdle /\ EditorIdle /\ SyncIdle

RestIdle == StoreIdle /\ MoreIdle

\* Nothing is on the call stack
WalkIdle ==
  /\ walker = "none"
  /\ stack = <<>>
  /\ out = <<>>

\* The diff view as mounted: empty editors, nothing compared, no history
ViewIdle ==
  /\ originalJson = ""
  /\ modifiedJson = ""
  /\ error = <<>>
  /\ hasCompared = FALSE
  /\ originalHistory = <<>>
  /\ modifiedHistory = <<>>
  /\ toast = <<>>
  /\ now = 0

InitWith(pairs) ==
  /\ \E pair \in pairs : original = pair[1] /\ modified = pair[2]
  /\ path \in Paths
  /\ pc = "ready"
  /\ results = <<>>
  /\ reversed = <<>>
  /\ selfResults = <<>>
  /\ diffLines = <<>>
  /\ WalkIdle
  /\ RestIdle
  /\ ViewIdle

Init == InitWith(PlainPairs \cup Examples)

InitKeys == InitWith(DottedPairs)

\* compareJson(original, modified, path)
CompareJson ==
  /\ pc = "ready"
  /\ results' = compareJson(original, modified, path)
  /\ pc' = "compared"
  /\ UNCHANGED <<original, modified, path, reversed, selfResults, diffLines, walkVars, restVars, viewVars>>

\* compareJson(modified, original, path): the same documents, exchanged
CompareJsonSwapped ==
  /\ pc = "compared"
  /\ reversed' = compareJson(modified, original, path)
  /\ pc' = "swapped"
  /\ UNCHANGED <<original, modified, path, results, selfResults, diffLines, walkVars, restVars, viewVars>>

\* A document against itself: compareJson(original, original, path), and
\* the lines of the diff view for it
CompareSelf ==
  /\ pc = "swapped"
  /\ selfResults' = compareJson(original, original, path)
  /\ diffLines' = CompareLines(original, original)
  /\ pc' = "self"
  /\ UNCHANGED <<original, modified, path, results, reversed, walkVars, restVars, viewVars>>

Next == CompareJson \/ CompareJsonSwapped \/ CompareSelf

Spec == Init /\ [][Next]_vars

\* The same comparisons over the documents with dotted and inherited keys
SpecKeys == InitKeys /\ [][Next]_vars

(***************************************************************************)
(* The renderer applied to two parsed documents                            *)
(***************************************************************************)
\* The pairs JSON.parse can return: no argument is undefined
JsonPairs(pairs) == {pair \in pairs : pair[1] # Undefined /\ pair[2] # Undefined}

InitRenderWith(pairs) ==
  /\ \E pair \in JsonPairs(pairs) : original = pair[1] /\ modified = pair[2]
  /\ path = ""
  /\ pc = "ready"
  /\ results = <<>>
  /\ reversed = <<>>
  /\ selfResults = <<>>
  /\ diffLines = <<>>
  /\ WalkIdle
  /\ RestIdle
  /\ ViewIdle

InitRender == InitRenderWith(PlainPairs \cup Examples)

InitRenderKeys == InitRenderWith(DottedPairs)

\* The lines of the view for the two documents, and the records of the
\* flat differ for the same two documents
Render ==
  /\ pc = "ready"
  /\ diffLines' = CompareLines(original, modified)
  /\ results' = compareJson(original, modified, path)
  /\ pc' = "rendered"
  /\ UNCHANGED <<original, modified, path, reversed, selfResults, walkVars, restVars, viewVars>>

NextRender == Render

SpecRender == InitRender /\ [][NextRender]_vars

SpecRenderKeys == InitRenderKeys /\ [][NextRender]_vars

(***************************************************************************)
(* The diff view: the two editors, compare, swap, clear and the histories  *)
(***************************************************************************)
\* The documents the editors hold the text of: scalar roots, empty and
\* one-member containers of both kinds
ViewDocs ==
  { Null, Num(1), Obj(<<>>), Arr(<<>>), Arr(<<Num(1)>>),
    Obj(<<[k |-> "a", v |-> Num(1)]>>), Obj(<<[k |-> "a", v |-> Num(2)]>>) }

\* Texts JSON.parse rejects: only whitespace, and a cut-off object
BadTexts == {" ", "{a"}

\* Every document of the view beside its JSON text
DocTexts == {[text |-> Stringify(d), data |-> d] : d \in ViewDocs}

EditorTexts == {""} \cup BadTexts \cup {r.text : r \in DocTexts}

\* The editors' texts before a handler runs
TextPairs == EditorTexts \X EditorTexts

\* JSON.parse(text): the document whose text it is, or the exception
JsonParse(text) ==
  LET parsed == {r \in DocTexts : r.text = text}
  IN  IF parsed # {} THEN [ok |-> TRUE, data |-> (CHOOSE r \in parsed : TRUE).data]
      ELSE [ok |-> FALSE, message |-> "Unexpected token"]

\* text || '{}'
OrDefault(text) == IF text = "" THEN "{}" ELSE text

\* text.trim(): the one text of the model with outer whitespace is " "
Trim(text) == IF text = " " THEN "" ELSE text

MAX_HISTORY_ITEMS == 50

\* createPreview(content); every text of the model has at most 50 characters
CreatePreview(content) == Trim(content)

\* A content already held is left where it is, with its old timestamp
AddToHistoryKeepsPlace(history, content, t) ==
  IF Trim(content) = "" THEN history
  ELSE IF \E i \in 1..Len(history) : history[i].content = content THEN history
  ELSE
    LET added == <<[content |-> content, timestamp |-> t, preview |-> CreatePreview(content)]>>
                   \o history
    IN  IF Len(added) > MAX_HISTORY_ITEMS THEN SubSeq(added, 1, MAX_HISTORY_ITEMS) ELSE added

\* The list is cut from its front, so the newest entry is the one dropped
AddToHistoryDropsNewest(history, content, t) ==
  IF Trim(content) = "" THEN history
  ELSE IF \E i \in 1..Len(history) : history[i].content = content THEN
    LET existingIndex == CHOOSE i \in 1..Len(history) : history[i].content = content
        existing == [history[existingIndex] EXCEPT !.timestamp = t]
    IN  <<existing>> \o SubSeq(history, 1, existingIndex - 1)
                     \o SubSeq(history, existingIndex + 1, Len(history))
  ELSE
    LET added == <<[content |-> content, timestamp |-> t, preview |-> CreatePreview(content)]>>
                   \o history
    IN  IF Len(added) > MAX_HISTORY_ITEMS THEN SubSeq(added, 2, Len(added)) ELSE added

\* addToHistory(content) of a store holding history, at clock reading t
AddToHistory(history, content, t) ==
  IF Trim(content) = "" THEN history
  ELSE IF \E i \in 1..Len(history) : history[i].content = content THEN
    LET existingIndex == CHOOSE i \in 1..Len(history) :
                           /\ history[i].content = content
                           /\ \A j \in 1..(i - 1) : history[j].content # content
        existing == [history[existingIndex] EXCEPT !.timestamp = t]
    IN  <<existing>> \o SubSeq(history, 1, existingIndex - 1)
                     \o SubSeq(history, existingIndex + 1, Len(history))
  ELSE
    LET added == <<[content |-> content, timestamp |-> t, preview |-> CreatePreview(content)]>>
                   \o history
    IN  IF Len(added) > MAX_HISTORY_ITEMS THEN SubSeq(added, 1, MAX_HISTORY_ITEMS) ELSE added

\* The outcome with one error message put on both sides
CompareOutcomeMergedError(origText, modText, origHistory, modHistory, t) ==
  LET o == JsonParse(OrDefault(origText))
      m == JsonParse(OrDefault(modText))
  IN  IF ~o.ok \/ ~m.ok THEN
        [error |-> [side \in {"original", "modified"} |-> "Unexpected token"],
         diffLines |-> <<>>, originalHistory |-> origHistory,
         modifiedHistory |-> modHistory, toast |-> <<>>]
      ELSE
        [error |-> <<>>, diffLines |-> CompareLines(o.data, m.data),
         originalHistory |-> AddToHistory(origHistory, origText, t),
         modifiedHistory |-> AddToHistory(modHistory, modText, t),
         toast |-> <<"compareSuccess">>]

\* What compare() leaves in error, diffLines, the two histories and the
\* toasts for the two texts; hasCompared becomes true in every case
CompareOutcome(origText, modText, origHistory, modHistory, t) ==
  LET o == JsonParse(OrDefault(origText))
      m == JsonParse(OrDefault(modText))
      failed == (IF o.ok THEN {} ELSE {"original"}) \cup (IF m.ok THEN {} ELSE {"modified"})
      err == [side \in failed |-> IF side = "original" THEN o.message ELSE m.message]
  IN  IF failed # {} THEN
        [error |-> err, diffLines |-> <<>>, originalHistory |-> origHistory,
         modifiedHistory |-> modHistory, toast |-> <<>>]
      ELSE
        LET lines == CompareLines(o.data, m.data)
        IN  [error |-> err, diffLines |-> lines,
             originalHistory |-> AddToHistory(origHistory, origText, t),
             modifiedHistory |-> AddToHistory(modHistory, modText, t),
             toast |-> <<IF Len(lines) = 0 THEN "noDiff" ELSE "compareSuccess">>]

\* The list a store starts with: what localStorage holds for its key
StoredHistories == {<<>>, <<[content |-> "[]", timestamp |-> 0, preview |-> "[]"]>>}

differVars == <<original, modified, path, pc, results, reversed, selfResults>>

InitView ==
  /\ \E pair \in TextPairs : originalJson = pair[1] /\ modifiedJson = pair[2]
  /\ error = <<>>
  /\ hasCompared = FALSE
  /\ originalHistory \in StoredHistories
  /\ modifiedHistory \in StoredHistories
  /\ toast = <<>>
  /\ now = 0
  /\ diffLines = <<>>
  /\ original = Undefined
  /\ modified = Undefined
  /\ path = ""
  /\ pc = "ready"
  /\ results = <<>>
  /\ reversed = <<>>
  /\ selfResults = <<>>
  /\ WalkIdle
  /\ RestIdle

\* compare()
Compare ==
  LET r == CompareOutcome(originalJson, modifiedJson, originalHistory, modifiedHistory, now)
  IN  /\ error' = r.error
      /\ diffLines' = r.diffLines
      /\ hasCompared' = TRUE
      /\ originalHistory' = r.originalHistory
      /\ modifiedHistory' = r.modifiedHistory
      /\ toast' = r.toast
      /\ UNCHANGED <<differVars, walkVars, restVars, originalJson, modifiedJson, now>>

\* swap(): the texts change sides, the comparison is redone if one was made
Swap ==
  LET r == CompareOutcome(modifiedJson, originalJson, originalHistory, modifiedHistory, now)
  IN  /\ originalJson' = modifiedJson
      /\ modifiedJson' = originalJson
      /\ IF hasCompared
           THEN /\ error' = r.error
                /\ diffLines' = r.diffLines
                /\ originalHistory' = r.originalHistory
                /\ modifiedHistory' = r.modifiedHistory
                /\ toast' = r.toast \o <<"swapped">>
           ELSE /\ UNCHANGED <<error, diffLines, originalHistory, modifiedHistory>>
                /\ toast' = <<"swapped">>
      /\ UNCHANGED <<differVars, walkVars, restVars, hasCompared, now>>

\* clearAll()
ClearAll ==
  /\ originalJson' = ""
  /\ modifiedJson' = ""
  /\ diffLines' = <<>>
  /\ error' = <<>>
  /\ hasCompared' = FALSE
  /\ toast' = <<"cleared">>
  /\ UNCHANGED <<differVars, walkVars, restVars, originalHistory, modifiedHistory, now>>

\* loadFromOriginalHistory(item.content) for an item of the dropdown
LoadFromOriginalHistory ==
  /\ \E i \in 1..Len(originalHistory) : originalJson' = originalHistory[i].content
  /\ toast' = <<>>
  /\ UNCHANGED <<differVars, walkVars, restVars, diffLines, modifiedJson, error, hasCompared,
                 originalHistory, modifiedHistory, now>>

\* loadFromModifiedHistory(item.content)
LoadFromModifiedHistory ==
  /\ \E i \in 1..Len(modifiedHistory) : modifiedJson' = modifiedHistory[i].content
  /\ toast' = <<>>
  /\ UNCHANGED <<differVars, walkVars, restVars, diffLines, originalJson, error, hasCompared,
                 originalHistory, modifiedHistory, now>>

\* handleClearOriginalHistory(): shown only while the list has entries
HandleClearOriginalHistory ==
  /\ originalHistory # <<>>
  /\ originalHistory' = <<>>
  /\ toast' = <<"historyCleared">>
  /\ UNCHANGED <<differVars, walkVars, restVars, diffLines, originalJson, modifiedJson, error,
                 hasCompared, modifiedHistory, now>>

\* handleClearModifiedHistory()
HandleClearModifiedHistory ==
  /\ modifiedHistory # <<>>
  /\ modifiedHistory' = <<>>
  /\ toast' = <<"historyCleared">>
  /\ UNCHANGED <<differVars, walkVars, restVars, diffLines, originalJson, modifiedJson, error,
                 hasCompared, originalHistory, now>>

NextView ==
  \/ Compare
  \/ Swap
  \/ ClearAll
  \/ LoadFromOriginalHistory
  \/ LoadFromModifiedHistory
  \/ HandleClearOriginalHistory
  \/ HandleClearModifiedHistory

SpecView == InitView /\ [][NextView]_vars

(***************************************************************************)
(* The two recursive walks, one call frame at a time                       *)
(***************************************************************************)
\* Documents of one key and three scalars
Narrow == [scalars |-> {Null, Num(1), Num(2)}, keys |-> {"a"}, arrays |-> TRUE]

\* Documents whose leaves both sit two containers deep
Deep ==
  { <<Arr(<<Arr(<<Num(1)>>)>>), Arr(<<Arr(<<Num(2)>>)>>)>>,
    <<Obj(<<[k |-> "a", v |-> Obj(<<[k |-> "a", v |-> Num(1)]>>)]>>),
      Obj(<<[k |-> "a", v |-> Obj(<<[k |-> "a", v |-> Num(1)]>>)]>>)>>,
    <<Obj(<<[k |-> "a", v |-> Arr(<<Num(1)>>)]>>),
      Obj(<<[k |-> "a", v |-> Obj(<<[k |-> "a", v |-> Null]>>)]>>)>> }

NarrowPairs == JsonPairs(Pairs(Narrow, MaxNodes - 1)) \cup Deep

\* The frame of a call on (orig, mod) with third argument p (the path of
\* compareJson) or indent (of generateDiff).  keys and i are the loop's
\* list and position, pending the lines pushed after a nested call returns.
Frame(orig, mod, p, indent) ==
  [orig |-> orig, mod |-> mod, path |-> p, indent |-> indent, phase |-> "enter",
   keys |-> <<>>, i |-> 1, pending |-> <<>>]

Top == stack[Len(stack)]

Pop == SubSeq(stack, 1, Len(stack) - 1)

ReplaceTop(f) == [stack EXCEPT ![Len(stack)] = f]

\* The nested call made again on the caller's own two values
ChildFrameOfCaller(f, key, p, indent) == Frame(f.orig, f.mod, p, indent)

\* The frame of the nested call on (orig[key], mod[key])
ChildFrame(f, key, p, indent) == Frame(Get(f.orig, key), Get(f.mod, key), p, indent)

\* compareJson before its loops: the branches that return at once
CompareJsonReturnsEarly(f) ==
  \/ IsNullish(f.orig)
  \/ IsNullish(f.mod)
  \/ TypeOf(f.orig) # TypeOf(f.mod)
  \/ TypeOf(f.orig) # "object"

CompareJsonEarly(f) ==
  IF IsNullish(f.orig) THEN
    IF ~IsNullish(f.mod) THEN <<Added(OrRoot(f.path), f.mod)>> ELSE <<>>
  ELSE IF IsNullish(f.mod) THEN <<Removed(OrRoot(f.path), f.orig)>>
  ELSE IF TypeOf(f.orig) # TypeOf(f.mod) THEN <<Modified(OrRoot(f.path), f.orig, f.mod)>>
  ELSE IF ~StrictEq(f.orig, f.mod) THEN <<Modified(OrRoot(f.path), f.orig, f.mod)>>
  ELSE <<>>

\* What compareJson iterates over: 0 .. maxLength-1, or allKeys
CompareJsonKeys(f) ==
  IF IsArray(f.orig) /\ IsArray(f.mod)
    THEN IndexKeys(Max(Len(f.orig.items), Len(f.mod.items)))
    ELSE Dedup(ObjectKeys(f.orig) \o ObjectKeys(f.mod))

\* One pass of the loop body of compareJson: the records pushed, and the
\* nested call if there is one
CompareJsonStep(f, key) ==
  LET isArray == IsArray(f.orig) /\ IsArray(f.mod)
      at == IF isArray THEN ItemPath(f.path, ParseInt(key)) ELSE KeyPath(f.path, key)
      inOriginal == IF isArray THEN ParseInt(key) < Len(f.orig.items) ELSE In(key, f.orig)
      inModified == IF isArray THEN ParseInt(key) < Len(f.mod.items) ELSE In(key, f.mod)
  IN  IF ~inOriginal THEN
        [emit |-> <<Added(at, Get(f.mod, key))>>, calls |-> FALSE, child |-> <<>>, after |-> <<>>]
      ELSE IF ~inModified THEN
        [emit |-> <<Removed(at, Get(f.orig, key))>>, calls |-> FALSE, child |-> <<>>, after |-> <<>>]
      ELSE
        [emit |-> <<>>, calls |-> TRUE, child |-> ChildFrame(f, key, at, 0), after |-> <<>>]

\* generateDiff before its loop: the returns of an empty list
GenerateDiffReturnsEarly(f) ==
  \/ f.orig.t = "null" /\ f.mod.t = "null"
  \/ f.orig.t = "undefined" /\ f.mod.t = "undefined"
  \/ TypeOf(f.orig) # TypeOf(f.mod)
  \/ TypeOf(f.orig) # "object"
  \/ f.orig.t = "null"
  \/ f.mod.t = "null"

\* allKeys of generateDiff, sorted unless both values are arrays
GenerateDiffKeys(f) ==
  LET allKeys == Dedup(ObjectKeys(f.orig) \o ObjectKeys(f.mod))
  IN  IF IsArray(f.orig) /\ IsArray(f.mod) THEN allKeys ELSE Sort(allKeys)

\* One pass of the loop body of generateDiff: the lines pushed before the
\* nested call, the call, and the line pushed after it
GenerateDiffStep(f, key) ==
  LET origVal == Get(f.orig, key)
      modVal == Get(f.mod, key)
      isArray == IsArray(f.orig) /\ IsArray(f.mod)
      indentStr == Repeat("  ", f.indent)
      keyDisplay == IF isArray THEN "" ELSE "\"" \o key \o "\": "
      recurses == /\ In(key, f.orig)
                  /\ In(key, f.mod)
                  /\ TypeOf(origVal) = TypeOf(modVal)
                  /\ TypeOf(origVal) = "object"
                  /\ origVal.t # "null"
                  /\ modVal.t # "null"
  IN  IF recurses THEN
        [emit |-> <<StructuralLine(f.indent, indentStr \o keyDisplay
                                           \o (IF IsArray(origVal) THEN "[" ELSE "{"))>>,
         calls |-> TRUE,
         child |-> ChildFrame(f, key, "", f.indent + 1),
         after |-> <<StructuralLine(f.indent, indentStr \o (IF IsArray(origVal) THEN "]" ELSE "}"))>>]
      ELSE
        [emit |-> DiffLoop(f.orig, f.mod, f.indent, <<key>>), calls |-> FALSE,
         child |-> <<>>, after |-> <<>>]

InitWalk ==
  /\ \E pair \in NarrowPairs : original = pair[1] /\ modified = pair[2]
  /\ path = ""
  /\ pc = "ready"
  /\ results = <<>>
  /\ reversed = <<>>
  /\ selfResults = <<>>
  /\ diffLines = <<>>
  /\ WalkIdle
  /\ RestIdle
  /\ ViewIdle

\* compareJson(original, modified) is called
CallCompareJson ==
  /\ pc = "ready"
  /\ walker' = "compareJson"
  /\ stack' = <<Frame(original, modified, path, 0)>>
  /\ pc' = "walking"
  /\ UNCHANGED <<original, modified, path, results, reversed, selfResults, diffLines, out, viewVars, restVars>>

\* generateDiff(original, modified, 1) is called
CallGenerateDiff ==
  /\ pc = "ready"
  /\ walker' = "generateDiff"
  /\ stack' = <<Frame(original, modified, "", 1)>>
  /\ pc' = "walking"
  /\ UNCHANGED <<original, modified, path, results, reversed, selfResults, diffLines, out, viewVars, restVars>>

\* The call on top of the stack runs up to its loop, or returns
WalkEnter ==
  /\ pc = "walking"
  /\ Top.phase = "enter"
  /\ LET early == IF walker = "compareJson" THEN CompareJsonReturnsEarly(Top)
                  ELSE GenerateDiffReturnsEarly(Top)
         keys == IF walker = "compareJson" THEN CompareJsonKeys(Top) ELSE GenerateDiffKeys(Top)
     IN  IF early
           THEN /\ out' = out \o (IF walker = "compareJson" THEN CompareJsonEarly(Top) ELSE <<>>)
                /\ stack' = Pop
           ELSE /\ out' = out
                /\ stack' = ReplaceTop([Top EXCEPT !.phase = "loop", !.keys = keys])
  /\ pc' = IF stack' = <<>> THEN "returned" ELSE "walking"
  /\ UNCHANGED <<original, modified, path, results, reversed, selfResults, diffLines, walker, viewVars, restVars>>

\* One pass of the loop of the call on top, or its return after the last
WalkLoop ==
  /\ pc = "walking"
  /\ Top.phase = "loop"
  /\ Top.pending = <<>>
  /\ IF Top.i > Len(Top.keys)
       THEN /\ out' = out
            /\ stack' = Pop
       ELSE LET key == Top.keys[Top.i]
                step == IF walker = "compareJson" THEN CompareJsonStep(Top, key)
                        ELSE GenerateDiffStep(Top, key)
                next == [Top EXCEPT !.i = @ + 1, !.pending = step.after]
            IN  /\ out' = out \o step.emit
                /\ stack' = IF step.calls THEN Append(ReplaceTop(next), step.child)
                            ELSE ReplaceTop(next)
  /\ pc' = IF stack' = <<>> THEN "returned" ELSE "walking"
  /\ UNCHANGED <<original, modified, path, results, reversed, selfResults, diffLines, walker, viewVars, restVars>>

\* The nested call has returned: the closing line is pushed
WalkClose ==
  /\ pc = "walking"
  /\ Top.phase = "loop"
  /\ Top.pending # <<>>
  /\ out' = out \o Top.pending
  /\ stack' = ReplaceTop([Top EXCEPT !.pending = <<>>])
  /\ UNCHANGED <<original, modified, path, pc, results, reversed, selfResults, diffLines,
                 walker, viewVars, restVars>>

NextWalk ==
  \/ CallCompareJson
  \/ CallGenerateDiff
  \/ WalkEnter
  \/ WalkLoop
  \/ WalkClose

\* A call that has started runs on: nothing else is scheduled meanwhile
SpecWalk == InitWalk /\ [][NextWalk]_vars /\ WF_vars(NextWalk)

(***************************************************************************)
(* The history store: useHistory and localStorage                          *)
(***************************************************************************)
\* Calls made on the stores in one run, and the last reading of Date.now()
MaxCalls == 3

MaxTime == 2

\* getStorageKey(editorKey)
GetStorageKey(editorKey) == "tool-history-" \o editorKey

HistoryItem(content, timestamp) ==
  [content |-> content, timestamp |-> timestamp, preview |-> CreatePreview(content)]

\* JSON.stringify(items): every item written out as its three fields
StringifyItems(items) ==
  [i \in 1..Len(items) |-> <<items[i].content, items[i].timestamp, items[i].preview>>]

\* JSON.parse(stored): every item read back
ParseItems(stored) ==
  [i \in 1..Len(stored) |-> [content |-> stored[i][1], timestamp |-> stored[i][2],
                             preview |-> stored[i][3]]]

\* loadHistory(editorKey): the list stored under the key, [] if none
LoadHistory(editorKey) == ParseItems(storage[GetStorageKey(editorKey)])

\* saveHistory(editorKey, items): localStorage after the write
SaveHistory(editorKey, items) ==
  [storage EXCEPT ![GetStorageKey(editorKey)] = StringifyItems(items)]

\* A list left by earlier sessions: n entries c1 .. cn, most recent first
Stored(n) == [i \in 1..n |-> HistoryItem("c" \o ToString(i), IF i = 1 THEN 1 ELSE 0)]

StoredLists == {<<>>, Stored(2), Stored(MAX_HISTORY_ITEMS)}

\* The contents handed to addToHistory: two new ones, one that the stored
\* lists hold at index 1, and a blank one
AddedContents == {"x", "y", "c2", " "}

\* history.value.splice(index, 1)
RemoveFromHistory(history, index) ==
  SubSeq(history, 1, index) \o SubSeq(history, index + 2, Len(history))

\* The indices the dropdown can hand to removeFromHistory: first and last
RemovableIndices(history) == {0, Len(history) - 1} \cap (0..(Len(history) - 1))

InitHistory ==
  /\ \E list \in StoredLists :
       /\ storage = [key \in StorageKeys |->
                       IF key = GetStorageKey("json-diff-original")
                         THEN StringifyItems(list) ELSE StringifyItems(Stored(2))]
       /\ stores = [inst \in Instances |-> list]
  /\ calls = 0
  /\ now = 1
  /\ originalJson = ""
  /\ modifiedJson = ""
  /\ error = <<>>
  /\ hasCompared = FALSE
  /\ originalHistory = <<>>
  /\ modifiedHistory = <<>>
  /\ toast = <<>>
  /\ diffLines = <<>>
  /\ original = Undefined
  /\ modified = Undefined
  /\ path = ""
  /\ pc = "ready"
  /\ results = <<>>
  /\ reversed = <<>>
  /\ selfResults = <<>>
  /\ WalkIdle
  /\ MoreIdle

\* What no call on a store touches
storeFrame == <<differVars, diffLines, walkVars, originalJson, modifiedJson, error,
                hasCompared, originalHistory, modifiedHistory, toast, moreVars>>

\* Date.now() moves on
Tick ==
  /\ now < MaxTime
  /\ now' = now + 1
  /\ UNCHANGED <<storeFrame, storeVars>>

\* useHistory(editorKey): a page is opened (again) and loads the list
UseHistory(inst) ==
  /\ calls < MaxCalls
  /\ calls' = calls + 1
  /\ stores' = [stores EXCEPT ![inst] = LoadHistory(EditorKey(inst))]
  /\ UNCHANGED <<storeFrame, storage, now>>

\* addToHistory(content) on one instance
AddToHistoryCall(inst, content) ==
  /\ calls < MaxCalls
  /\ calls' = calls + 1
  /\ IF Trim(content) = ""
       THEN UNCHANGED <<stores, storage>>
       ELSE /\ stores' = [stores EXCEPT ![inst] = AddToHistory(stores[inst], content, now)]
            /\ storage' = SaveHistory(EditorKey(inst), stores'[inst])
  /\ UNCHANGED <<storeFrame, now>>

\* removeFromHistory(index) on one instance
RemoveFromHistoryCall(inst, index) ==
  /\ index \in RemovableIndices(stores[inst])
  /\ calls < MaxCalls
  /\ calls' = calls + 1
  /\ stores' = [stores EXCEPT ![inst] = RemoveFromHistory(stores[inst], index)]
  /\ storage' = SaveHistory(EditorKey(inst), stores'[inst])
  /\ UNCHANGED <<storeFrame, now>>

\* clearHistory() on one instance
ClearHistoryCall(inst) ==
  /\ calls < MaxCalls
  /\ calls' = calls + 1
  /\ stores' = [stores EXCEPT ![inst] = <<>>]
  /\ storage' = SaveHistory(EditorKey(inst), <<>>)
  /\ UNCHANGED <<storeFrame, now>>

NextHistory ==
  \/ Tick
  \/ \E inst \in Instances : UseHistory(inst)
  \/ \E inst \in Instances, content \in AddedContents : AddToHistoryCall(inst, content)
  \/ \E inst \in Instances, index \in 0..(MAX_HISTORY_ITEMS - 1) :
       RemoveFromHistoryCall(inst, index)
  \/ \E inst \in Instances : ClearHistoryCall(inst)

SpecHistory == InitHistory /\ [][NextHistory]_vars

(***************************************************************************)
(* The escape utilities: escapeJson and unescapeJson                       *)
(* A string is the sequence of its characters.                             *)
(***************************************************************************)
MaxLen == 4

Backslash == "\\"

Quote == "\""

Alphabet == {Backslash, Quote, "a"}

\* Every string of at most n characters
StringsUpTo(n) == UNION {[1..len -> Alphabet] : len \in 0..n}

\* Everything any action leaves alone unless it belongs to its own page
coreVars == <<differVars, diffLines, walkVars, viewVars, storeVars>>

\* No comparison was asked for, no page but the one at hand is in use
CoreIdle ==
  /\ original = Undefined
  /\ modified = Undefined
  /\ path = ""
  /\ pc = "ready"
  /\ results = <<>>
  /\ reversed = <<>>
  /\ selfResults = <<>>
  /\ diffLines = <<>>
  /\ WalkIdle
  /\ ViewIdle
  /\ StoreIdle

\* String.prototype.replace with a global pattern that matches one literal
\* text: the matches are found from left to right and do not overlap
RECURSIVE ReplaceAll(_, _, _)
ReplaceAll(s, pat, rep) ==
  IF Len(s) < Len(pat) THEN s
  ELSE IF SubSeq(s, 1, Len(pat)) = pat
         THEN rep \o ReplaceAll(SubSeq(s, Len(pat) + 1, Len(s)), pat, rep)
         ELSE <<Head(s)>> \o ReplaceAll(Tail(s), pat, rep)

\* The quotes are prefixed first, and their backslashes doubled afterwards
escapeJsonQuotesFirst(json) ==
  ReplaceAll(ReplaceAll(json, <<Quote>>, <<Backslash, Quote>>),
             <<Backslash>>, <<Backslash, Backslash>>)

escapeJson(json) ==
  ReplaceAll(ReplaceAll(json, <<Backslash>>, <<Backslash, Backslash>>),
             <<Quote>>, <<Backslash, Quote>>)

unescapeJson(json) ==
  ReplaceAll(ReplaceAll(json, <<Backslash, Quote>>, <<Quote>>),
             <<Backslash, Backslash>>, <<Backslash>>)

InitEscape ==
  /\ escapeIn \in StringsUpTo(MaxLen)
  /\ escapeOut = <<>>
  /\ unescapeOut = <<>>
  /\ escapePc = "input"
  /\ ToastIdle
  /\ EditorIdle
  /\ SyncIdle
  /\ CoreIdle

EscapeJson ==
  /\ escapePc = "input"
  /\ escapeOut' = escapeJson(escapeIn)
  /\ escapePc' = "escaped"
  /\ UNCHANGED <<coreVars, toastVars, editorVars, syncVars, escapeIn, unescapeOut>>

UnescapeJson ==
  /\ escapePc = "escaped"
  /\ unescapeOut' = unescapeJson(escapeOut)
  /\ escapePc' = "unescaped"
  /\ UNCHANGED <<coreVars, toastVars, editorVars, syncVars, escapeIn, escapeOut>>

NextEscape == EscapeJson \/ UnescapeJson

SpecEscape == InitEscape /\ [][NextEscape]_vars

(***************************************************************************)
(* useToast: the shared toast list, showToast and removeToast              *)
(***************************************************************************)
MaxToasts == 4

ToastIds == 0..(MaxToasts - 1)

\* The toasts the pages show: message and type
ToastKinds == {<<"copied", "success">>, <<"cleared", "info">>}

\* findIndex: the position (from 1) of the first toast with the id, 0 if none
FindIndex(list, id) ==
  IF \E i \in 1..Len(list) : list[i].id = id
    THEN CHOOSE i \in 1..Len(list) :
           /\ list[i].id = id
           /\ \A j \in 1..(i - 1) : list[j].id # id
    ELSE 0

\* The id is taken for the position in the list
RemoveToastAtPosition(list, id) ==
  IF id + 1 \in 1..Len(list)
    THEN SubSeq(list, 1, id) \o SubSeq(list, id + 2, Len(list))
    ELSE list

RemoveToast(list, id) ==
  IF FindIndex(list, id) # 0
    THEN SubSeq(list, 1, FindIndex(list, id) - 1)
           \o SubSeq(list, FindIndex(list, id) + 1, Len(list))
    ELSE list

InitToast ==
  /\ ToastIdle
  /\ EscapeIdle
  /\ EditorIdle
  /\ SyncIdle
  /\ CoreIdle

\* showToast(message, type): the timer is set, never cleared
ShowToast(message, type) ==
  /\ nextId < MaxToasts
  /\ nextId' = nextId + 1
  /\ toasts' = Append(toasts, [id |-> nextId, message |-> message, type |-> type])
  /\ timers' = timers \cup {nextId}
  /\ UNCHANGED <<coreVars, escapeVars, editorVars, syncVars>>

\* The duration of toast id is over: its timer calls removeToast(id)
TimerFires(id) ==
  /\ id \in timers
  /\ timers' = timers \ {id}
  /\ toasts' = RemoveToast(toasts, id)
  /\ UNCHANGED <<coreVars, escapeVars, editorVars, syncVars, nextId>>

\* A click on the toast the container shows for id
ClickToast(id) ==
  /\ \E i \in 1..Len(toasts) : toasts[i].id = id
  /\ toasts' = RemoveToast(toasts, id)
  /\ UNCHANGED <<coreVars, escapeVars, editorVars, syncVars, nextId, timers>>

NextToast ==
  \/ \E kind \in ToastKinds : ShowToast(kind[1], kind[2])
  \/ \E id \in ToastIds : TimerFires(id)
  \/ \E id \in ToastIds : ClickToast(id)

\* Every timer that was set goes off
SpecToast ==
  InitToast /\ [][NextToast]_vars /\ \A id \in ToastIds : WF_vars(TimerFires(id))

(***************************************************************************)
(* The texts of the JSON editors, as sequences of characters               *)
(***************************************************************************)
Newline == "\n"

Spaces(n) == [i \in 1..n |-> " "]

RECURSIVE JoinChars(_, _)
JoinChars(parts, sep) ==
  IF parts = <<>> THEN <<>>
  ELSE IF Len(parts) = 1 THEN parts[1]
  ELSE parts[1] \o sep \o JoinChars(Tail(parts), sep)

\* JSON.stringify(v, null, indent), for the part of v at nesting depth
\* level; indent 0 is JSON.stringify(v).  Numbers have one digit, keys and
\* strings one character that needs no escape.
RECURSIVE StringifyChars(_, _, _)
StringifyChars(v, indent, level) ==
  LET open  == IF indent = 0 THEN <<>> ELSE <<Newline>> \o Spaces(indent * (level + 1))
      close == IF indent = 0 THEN <<>> ELSE <<Newline>> \o Spaces(indent * level)
      colon == IF indent = 0 THEN <<":">> ELSE <<":", " ">>
  IN  CASE v.t = "number" -> <<ToString(v.n)>>
        [] v.t = "string" -> <<Quote, v.s, Quote>>
        [] v.t = "null" -> <<"n", "u", "l", "l">>
        [] v.t = "array" ->
             IF v.items = <<>> THEN <<"[", "]">>
             ELSE <<"[">> \o open
                    \o JoinChars([i \in 1..Len(v.items) |->
                                    StringifyChars(v.items[i], indent, level + 1)],
                                 <<",">> \o open)
                    \o close \o <<"]">>
        [] v.t = "object" ->
             IF v.entries = <<>> THEN <<"{", "}">>
             ELSE <<"{">> \o open
                    \o JoinChars([i \in 1..Len(v.entries) |->
                                    <<Quote, v.entries[i].k, Quote>> \o colon
                                      \o StringifyChars(v.entries[i].v, indent, level + 1)],
                                 <<",">> \o open)
                    \o close \o <<"}">>

\* The documents the editors are given
EditorDocs == {Num(1), Obj(<<[k |-> "a", v |-> Num(1)]>>)}

\* The message of the SyntaxError JSON.parse throws
SyntaxErrorMessage == <<"U", "n", "e", "x", "p", "e", "c", "t", "e", "d">>

\* JSON.stringify(d, null, 2) of every document
PrettyTexts == [d \in EditorDocs |-> StringifyChars(d, 2, 0)]

\* The texts that parse, each with its document: the compact and the
\* 2-space forms of the documents
ParsedTexts ==
  [text \in UNION {{StringifyChars(d, 0, 0), StringifyChars(d, 2, 0)} : d \in EditorDocs} |->
     CHOOSE d \in EditorDocs : text \in {StringifyChars(d, 0, 0), StringifyChars(d, 2, 0)}]

\* JSON.parse(text)
ParseChars(text) ==
  IF text \in DOMAIN ParsedTexts
    THEN [ok |-> TRUE, data |-> ParsedTexts[text]]
    ELSE [ok |-> FALSE, data |-> Undefined]

\* text.trim()
RECURSIVE TrimChars(_)
TrimChars(text) ==
  IF text = <<>> THEN text
  ELSE IF Head(text) \in {" ", Newline} THEN TrimChars(Tail(text))
  ELSE IF text[Len(text)] \in {" ", Newline} THEN TrimChars(SubSeq(text, 1, Len(text) - 1))
  ELSE text

\* formatJson(json) and minifyJson(json): ok is false when they throw
formatJson(json, indent) ==
  IF ParseChars(json).ok
    THEN [ok |-> TRUE, value |-> StringifyChars(ParseChars(json).data, indent, 0)]
    ELSE [ok |-> FALSE, value |-> SyntaxErrorMessage]

minifyJson(json) == formatJson(json, 0)

\* The texts typed or pasted into a pane: nothing, a blank, a text that is
\* not JSON, the documents in both forms, and an escaped document
EditorInputs ==
  {<<>>, <<" ">>, <<"{", "a">>}
    \cup {StringifyChars(d, 0, 0) : d \in EditorDocs}
    \cup {StringifyChars(d, 2, 0) : d \in EditorDocs}
    \cup {escapeJson(StringifyChars(d, 0, 0)) : d \in EditorDocs}

\* The contents of the list after addToHistory(content), newest first
AddToHistoryContents(history, content) ==
  IF TrimChars(content) = <<>> THEN history
  ELSE LET added == <<content>> \o SelectSeq(history, LAMBDA c : c # content)
       IN  IF Len(added) > MAX_HISTORY_ITEMS THEN SubSeq(added, 1, MAX_HISTORY_ITEMS)
           ELSE added

(***************************************************************************)
(* The JSON editor: the input watcher, processJson and its deferred        *)
(* callback, clearAll                                                      *)
(***************************************************************************)
MaxClicks == 2

Modes == {"format", "minify", "escape", "unescape"}

\* t(...) of the toast the deferred callback shows for a mode
ModeText(mode) ==
  CASE mode = "format" -> "formatted"
    [] mode = "minify" -> "minified"
    [] mode = "escape" -> "escaped"
    [] mode = "unescape" -> "unescaped"

\* What the watcher of inputJson leaves for a new value of the input
WatchInput(newValue) ==
  IF TrimChars(newValue) = <<>> THEN [outputJson |-> <<>>, isValidJson |-> FALSE]
  ELSE IF ParseChars(newValue).ok
    THEN [outputJson |-> StringifyChars(ParseChars(newValue).data, 2, 0), isValidJson |-> TRUE]
    ELSE [outputJson |-> <<>>, isValidJson |-> FALSE]

\* The switch of processJson: the text for the output, unless it throws
Processed(mode, json) ==
  CASE mode = "format" -> formatJson(json, 2)
    [] mode = "minify" -> minifyJson(json)
    [] mode = "escape" -> [ok |-> TRUE, value |-> escapeJson(json)]
    [] mode = "unescape" -> [ok |-> TRUE, value |-> unescapeJson(json)]

\* What no handler of the JSON editors touches
editorFrame == <<differVars, diffLines, walkVars, originalJson, modifiedJson, error,
                 hasCompared, originalHistory, modifiedHistory, now, stores, storage,
                 escapeVars, toastVars>>

InitEditor ==
  /\ EditorIdle
  /\ SyncIdle
  /\ EscapeIdle
  /\ ToastIdle
  /\ CoreIdle

\* The input becomes another text (typed, pasted, a sample, a history
\* entry) and the watcher of inputJson runs
EditInput(text) ==
  /\ text # inputJson
  /\ inputJson' = text
  /\ outputJson' = WatchInput(text).outputJson
  /\ editorError' = <<>>
  /\ isValidJson' = WatchInput(text).isValidJson
  /\ UNCHANGED <<editorFrame, syncVars, calls, toast, processing, editorHistory, pending>>

\* processJson(mode) up to the setTimeout; failed tells whether this
\* invocation caught an exception, which the callback itself does not know
ProcessJson(mode) ==
  /\ TrimChars(inputJson) # <<>>
  /\ calls < MaxClicks
  /\ calls' = calls + 1
  /\ processing' = TRUE
  /\ LET r == Processed(mode, inputJson)
     IN  /\ outputJson' = IF r.ok THEN r.value ELSE outputJson
         /\ editorError' = IF r.ok THEN <<>> ELSE r.value
         /\ pending' = Append(pending, [mode |-> mode, failed |-> ~r.ok])
  /\ UNCHANGED <<editorFrame, syncVars, toast, inputJson, isValidJson, editorHistory>>

\* The callback of the oldest setTimeout(..., 200) runs
DeferredCallback ==
  /\ pending # <<>>
  /\ pending' = Tail(pending)
  /\ processing' = FALSE
  /\ editorHistory' = IF editorError = <<>>
                        THEN AddToHistoryContents(editorHistory, inputJson)
                        ELSE editorHistory
  /\ toast' = <<ModeText(Head(pending).mode)>>
  /\ UNCHANGED <<editorFrame, syncVars, calls, inputJson, outputJson, editorError,
                 isValidJson>>

\* clearAll(), and the watcher of inputJson if the input was not empty
EditorClearAll ==
  /\ inputJson' = <<>>
  /\ outputJson' = <<>>
  /\ editorError' = <<>>
  /\ isValidJson' = IF inputJson # <<>> THEN FALSE ELSE isValidJson
  /\ toast' = <<"cleared">>
  /\ UNCHANGED <<editorFrame, syncVars, calls, processing, editorHistory, pending>>

NextEditor ==
  \/ \E text \in EditorInputs : EditInput(text)
  \/ \E mode \in Modes : ProcessJson(mode)
  \/ DeferredCallback
  \/ EditorClearAll

SpecEditor == InitEditor /\ [][NextEditor]_vars

(***************************************************************************)
(* The two-way JSON editor: both panes are edited, two watchers keep them  *)
(* in step, the history is saved after a pause.  A handler runs as one     *)
(* step; the watcher jobs it queued and the nextTick callbacks run after   *)
(* it, before the next handler or timer.                                   *)
(***************************************************************************)
MaxEvents == 2

HISTORY_DEBOUNCE_MS == 1000

\* The time that passes in one step of the clock
TickMs == 500

\* No watcher job and no nextTick callback is waiting
Quiet == jobs = {} /\ ticks = 0

\* The job of a ref's watcher is queued when the ref is given another value
Queued(ref, old, new) == IF new # old THEN {ref} ELSE {}

\* The pending timer is left to run and a second one is set
SaveToHistoryDebouncedNoClear(set, handle, content) ==
  LET id == CHOOSE i \in 1..(Cardinality(set) + 2) :
              /\ i # handle
              /\ \A t \in set : t.id # i
              /\ \A j \in 1..(i - 1) : j = handle \/ \E t \in set : t.id = j
  IN  [saveTimers |-> set \cup {[id |-> id, content |-> content,
                                 left |-> HISTORY_DEBOUNCE_MS]},
       historyDebounceTimer |-> id]

\* saveToHistoryDebounced(content): clearTimeout of the handle, then a new
\* timer, whose id is one no timer that is set has
SaveToHistoryDebounced(set, handle, content) ==
  LET cleared == {t \in set : t.id # handle}
      id == CHOOSE i \in 1..(Cardinality(cleared) + 2) :
              /\ i # handle
              /\ \A t \in cleared : t.id # i
              /\ \A j \in 1..(i - 1) : j = handle \/ \E t \in cleared : t.id = j
  IN  [saveTimers |-> cleared \cup {[id |-> id, content |-> content,
                                     left |-> HISTORY_DEBOUNCE_MS]},
       historyDebounceTimer |-> id]

\* The watcher of inputJson past its test of isSyncing; save holds the text
\* handed to saveToHistoryDebounced, if any
InputWatcherBody(newValue) ==
  IF TrimChars(newValue) = <<>> THEN
    [skip |-> FALSE, outputJson |-> <<>>, isValidJson |-> FALSE, save |-> <<>>]
  ELSE IF ParseChars(newValue).ok THEN
    LET formatted == PrettyTexts[ParseChars(newValue).data]
    IN  [skip |-> FALSE, outputJson |-> formatted, isValidJson |-> TRUE,
         save |-> <<formatted>>]
  ELSE IF ParseChars(unescapeJson(newValue)).ok THEN
    LET formatted == PrettyTexts[ParseChars(unescapeJson(newValue)).data]
    IN  [skip |-> FALSE, outputJson |-> formatted, isValidJson |-> TRUE,
         save |-> <<formatted>>]
  ELSE
    [skip |-> FALSE, outputJson |-> SyntaxErrorMessage, isValidJson |-> FALSE,
     save |-> <<>>]

\* isSyncing is not looked at
InputWatcherUnguarded(newValue, syncing) == InputWatcherBody(newValue)

\* watch(inputJson, ...)
InputWatcher(newValue, syncing) ==
  IF syncing
    THEN [skip |-> TRUE, outputJson |-> <<>>, isValidJson |-> FALSE, save |-> <<>>]
    ELSE InputWatcherBody(newValue)

\* watch(outputJson, ...): skip is true when it returns without a write
OutputWatcher(newValue, syncing) ==
  IF syncing \/ TrimChars(newValue) = <<>> \/ ~ParseChars(newValue).ok
    THEN [skip |-> TRUE, inputJson |-> <<>>, save |-> <<>>]
    ELSE [skip |-> FALSE, inputJson |-> newValue, save |-> <<newValue>>]

\* The text processJson hands to the function of the mode
ContentToProcess(mode, json) ==
  IF mode = "minify" /\ ~ParseChars(json).ok /\ ParseChars(unescapeJson(json)).ok
    THEN unescapeJson(json)
    ELSE json

SyncModes == {"minify", "escape", "unescape"}

syncFrame == <<editorFrame, pending>>

InitSync == InitEditor

\* The left pane is given another text by the user
UserEditsInput(text) ==
  /\ Quiet
  /\ calls < MaxEvents
  /\ calls' = calls + 1
  /\ text # inputJson
  /\ inputJson' = text
  /\ jobs' = {"inputJson"}
  /\ event' = [kind |-> "input", text |-> text, runs |-> 0]
  /\ UNCHANGED <<syncFrame, toast, outputJson, editorError, processing, isValidJson,
                 editorHistory, isSyncing, lastSavedHash, historyDebounceTimer,
                 saveTimers, watched, ticks>>

\* The right pane is given another text by the user
UserEditsOutput(text) ==
  /\ Quiet
  /\ calls < MaxEvents
  /\ calls' = calls + 1
  /\ text # outputJson
  /\ outputJson' = text
  /\ jobs' = {"outputJson"}
  /\ event' = [kind |-> "output", text |-> text, runs |-> 0]
  /\ UNCHANGED <<syncFrame, toast, inputJson, editorError, processing, isValidJson,
                 editorHistory, isSyncing, lastSavedHash, historyDebounceTimer,
                 saveTimers, watched, ticks>>

\* The timers as they are
TimersKept == [saveTimers |-> saveTimers, historyDebounceTimer |-> historyDebounceTimer]

\* What the job of the watcher of inputJson leaves: the callback is called
\* if the value is not the one the watcher saw last
InputWatcherRun ==
  LET r == InputWatcher(inputJson, isSyncing)
  IN  IF inputJson = watched.inputJson \/ r.skip THEN
        [isSyncing |-> isSyncing, outputJson |-> outputJson, ticks |-> ticks,
         editorError |-> editorError, isValidJson |-> isValidJson,
         queued |-> {}, timers |-> TimersKept]
      ELSE
        [isSyncing |-> TRUE, outputJson |-> r.outputJson, ticks |-> ticks + 1,
         editorError |-> <<>>, isValidJson |-> r.isValidJson,
         queued |-> Queued("outputJson", outputJson, r.outputJson),
         timers |-> IF r.save = <<>> THEN TimersKept
                    ELSE SaveToHistoryDebounced(saveTimers, historyDebounceTimer, r.save[1])]

\* The job of the watcher of inputJson runs
RunInputWatcher ==
  /\ "inputJson" \in jobs
  /\ event' = [event EXCEPT !.runs = @ + 1]
  /\ watched' = [watched EXCEPT !.inputJson = inputJson]
  /\ \E r \in {InputWatcherRun} :
       /\ isSyncing' = r.isSyncing
       /\ outputJson' = r.outputJson
       /\ ticks' = r.ticks
       /\ editorError' = r.editorError
       /\ isValidJson' = r.isValidJson
       /\ jobs' = (jobs \ {"inputJson"}) \cup r.queued
       /\ saveTimers' = r.timers.saveTimers
       /\ historyDebounceTimer' = r.timers.historyDebounceTimer
  /\ UNCHANGED <<syncFrame, calls, toast, inputJson, processing, editorHistory,
                 lastSavedHash>>

\* What the job of the watcher of outputJson leaves
OutputWatcherRun ==
  LET r == OutputWatcher(outputJson, isSyncing)
  IN  IF outputJson = watched.outputJson \/ r.skip THEN
        [isSyncing |-> isSyncing, inputJson |-> inputJson, ticks |-> ticks,
         queued |-> {}, timers |-> TimersKept]
      ELSE
        [isSyncing |-> TRUE, inputJson |-> r.inputJson, ticks |-> ticks + 1,
         queued |-> Queued("inputJson", inputJson, r.inputJson),
         timers |-> SaveToHistoryDebounced(saveTimers, historyDebounceTimer, r.save[1])]

\* The job of the watcher of outputJson runs
RunOutputWatcher ==
  /\ "outputJson" \in jobs
  /\ event' = [event EXCEPT !.runs = @ + 1]
  /\ watched' = [watched EXCEPT !.outputJson = outputJson]
  /\ \E r \in {OutputWatcherRun} :
       /\ isSyncing' = r.isSyncing
       /\ inputJson' = r.inputJson
       /\ ticks' = r.ticks
       /\ jobs' = (jobs \ {"outputJson"}) \cup r.queued
       /\ saveTimers' = r.timers.saveTimers
       /\ historyDebounceTimer' = r.timers.historyDebounceTimer
  /\ UNCHANGED <<syncFrame, calls, toast, outputJson, editorError, processing,
                 isValidJson, editorHistory, lastSavedHash>>

\* A nextTick callback runs, after the jobs of the flush
NextTick ==
  /\ jobs = {}
  /\ ticks > 0
  /\ ticks' = ticks - 1
  /\ isSyncing' = FALSE
  /\ UNCHANGED <<syncFrame, calls, toast, inputJson, outputJson, editorError, processing,
                 isValidJson, editorHistory, lastSavedHash, historyDebounceTimer,
                 saveTimers, jobs, watched, event>>

\* processJson(mode) of the two-way editor
SyncProcessJson(mode) ==
  /\ Quiet
  /\ calls < MaxEvents
  /\ calls' = calls + 1
  /\ TrimChars(inputJson) # <<>>
  /\ event' = [kind |-> "process", text |-> <<>>, runs |-> 0]
  /\ processing' = FALSE
  /\ LET r == Processed(mode, ContentToProcess(mode, inputJson))
         isValidResult == ParseChars(r.value).ok
         newInput == IF mode = "escape" \/ isValidResult THEN r.value ELSE inputJson
     IN  IF ~r.ok THEN
           /\ editorError' = r.value
           /\ UNCHANGED <<inputJson, outputJson, isSyncing, ticks, jobs, toast>>
         ELSE
           /\ editorError' = <<>>
           /\ isSyncing' = TRUE
           /\ outputJson' = r.value
           /\ inputJson' = newInput
           /\ ticks' = ticks + 1
           /\ jobs' = Queued("outputJson", outputJson, r.value)
                        \cup Queued("inputJson", inputJson, newInput)
           /\ toast' = IF isValidResult \/ mode = "escape"
                         THEN <<ModeText(mode)>>
                         ELSE <<ModeText(mode) \o " (invalidJson)">>
  /\ UNCHANGED <<syncFrame, isValidJson, editorHistory, lastSavedHash,
                 historyDebounceTimer, saveTimers, watched>>

\* clearAll() of the two-way editor: the timer that is set is left to run
SyncClearAll ==
  /\ Quiet
  /\ calls < MaxEvents
  /\ calls' = calls + 1
  /\ event' = [kind |-> "clear", text |-> <<>>, runs |-> 0]
  /\ inputJson' = <<>>
  /\ outputJson' = <<>>
  /\ editorError' = <<>>
  /\ lastSavedHash' = <<>>
  /\ toast' = <<"cleared">>
  /\ jobs' = Queued("inputJson", inputJson, <<>>) \cup Queued("outputJson", outputJson, <<>>)
  /\ UNCHANGED <<syncFrame, processing, isValidJson, editorHistory, isSyncing,
                 historyDebounceTimer, saveTimers, watched, ticks>>

\* A timer set by saveToHistoryDebounced is due and its callback runs
DebounceFires ==
  /\ Quiet
  /\ \E t \in saveTimers :
       /\ t.left = 0
       /\ saveTimers' = saveTimers \ {t}
       /\ IF TrimChars(t.content) # lastSavedHash
            THEN /\ editorHistory' = AddToHistoryContents(editorHistory, t.content)
                 /\ lastSavedHash' = TrimChars(t.content)
            ELSE UNCHANGED <<editorHistory, lastSavedHash>>
  /\ UNCHANGED <<syncFrame, calls, toast, inputJson, outputJson, editorError, processing,
                 isValidJson, isSyncing, historyDebounceTimer, jobs, watched, ticks, event>>

\* Time passes while no timer is due
TimePasses ==
  /\ Quiet
  /\ saveTimers # {}
  /\ \A t \in saveTimers : t.left > 0
  /\ saveTimers' = {[t EXCEPT !.left = Max(t.left - TickMs, 0)] : t \in saveTimers}
  /\ UNCHANGED <<syncFrame, calls, toast, inputJson, outputJson, editorError, processing,
                 isValidJson, editorHistory, isSyncing, lastSavedHash,
                 historyDebounceTimer, jobs, watched, ticks, event>>

NextSync ==
  \/ \E text \in EditorInputs : UserEditsInput(text)
  \/ \E text \in EditorInputs : UserEditsOutput(text)
  \/ RunInputWatcher
  \/ RunOutputWatcher
  \/ NextTick
  \/ \E mode \in SyncModes : SyncProcessJson(mode)
  \/ SyncClearAll
  \/ DebounceFires
  \/ TimePasses

\* The queued jobs and the nextTick callbacks are microtasks: they run
SpecSync ==
  /\ InitSync
  /\ [][NextSync]_vars
  /\ WF_vars(RunInputWatcher) /\ WF_vars(RunOutputWatcher) /\ WF_vars(NextTick)

(***************************************************************************)
(* Properties of the flat differ                                           *)
(***************************************************************************)
RECURSIVE Flatten(_)
Flatten(seqs) == IF seqs = <<>> THEN <<>> ELSE Head(seqs) \o Flatten(Tail(seqs))

Types(recs) == {recs[i].type : i \in 1..Len(recs)}

PathsOf(recs) == {recs[i].path : i \in 1..Len(recs)}

\* The path a record of the outermost call carries
RootPath == IF path = "" THEN "root" ELSE path

IsScalar(v) == v.t \in {"number", "string", "boolean"}

IsContainer(v) == v.t \in {"array", "object"}

\* The record of the opposite direction: added <-> removed with the value
\* moved to the other field, modified with the two values exchanged
Mirror(r) ==
  CASE r.type = "added" -> [type |-> "removed", path |-> r.path, oldValue |-> r.newValue]
    [] r.type = "removed" -> [type |-> "added", path |-> r.path, newValue |-> r.oldValue]
    [] r.type = "modified" ->
         [type |-> "modified", path |-> r.path, oldValue |-> r.newValue, newValue |-> r.oldValue]
    [] OTHER -> r

\* C1: compareJson(A,B) and compareJson(B,A) cover the same paths, and the
\* records of one direction are the mirrored records of the other
\* (added <-> removed, modified with oldValue and newValue exchanged).
C1_Symmetry ==
  pc = "swapped" =>
    /\ PathsOf(results) = PathsOf(reversed)
    /\ Len(results) = Len(reversed)
    /\ {Mirror(results[i]) : i \in 1..Len(results)} = Range(reversed)

C1_Witness ==
  /\ pc = "swapped"
  /\ Types(results) = {"added", "modified"}
  /\ Types(reversed) = {"removed", "modified"}
  /\ original.t = "object"
  /\ results[1].type # Mirror(reversed[1]).type

\* C2: compareJson(A,A) is empty, and the lines the diff view renders for
\* A against itself are all of type unchanged.
C2_Identity ==
  pc = "self" =>
    /\ selfResults = <<>>
    /\ \A i \in 1..Len(diffLines) : diffLines[i].type = "unchanged"

C2_Witness ==
  /\ pc = "self"
  /\ IsContainer(original)
  /\ Len(diffLines) >= 5
  /\ \E i \in 1..Len(diffLines) : "isStructural" \notin DOMAIN diffLines[i]
  /\ \E i \in 1..Len(diffLines) : diffLines[i].indent = 2

\* C3: a call whose two arguments are of different container kind (one an
\* object, the other an array) returns exactly one modified record at the
\* call's path, carrying both values.
C3_ShapeMismatch ==
  (pc = "compared" /\ {original.t, modified.t} = {"array", "object"}) =>
    results = <<[type |-> "modified", path |-> RootPath,
                 oldValue |-> original, newValue |-> modified]>>

\* The own property names of a parsed object
OwnKeys(v) == {v.entries[i].k : i \in 1..Len(v.entries)}

\* The value of own property k of a parsed object
OwnValue(v, k) == (CHOOSE e \in Range(v.entries) : e.k = k).v

\* The path of key k under the outermost call
KeyPathOf(k) == IF path = "" THEN k ELSE path \o "." \o k

\* C4: a key present in both objects that holds a non-null object in
\* original and null in modified yields exactly one record, of type
\* modified, at the key's path.
C4_NestedNulling ==
  (pc = "compared" /\ original.t = "object" /\ modified.t = "object") =>
    \A k \in OwnKeys(original) \cap OwnKeys(modified) :
      (IsContainer(OwnValue(original, k)) /\ OwnValue(modified, k) = Null) =>
        /\ Len(SelectSeq(results, LAMBDA r : r.path = KeyPathOf(k))) = 1
        /\ \E i \in 1..Len(results) :
             /\ results[i].path = KeyPathOf(k)
             /\ results[i].type = "modified"

\* C5: null precedence. original null/absent and modified not: exactly one
\* added record at the path (root when the path is empty) with newValue =
\* modified; otherwise modified null/absent: exactly one removed record
\* with oldValue = original; both null/absent: no record.
C5_NullPrecedence ==
  LET absent(v) == v = Null \/ v = Undefined
  IN  pc = "compared" =>
        /\ (absent(original) /\ ~absent(modified)) =>
             results = <<[type |-> "added", path |-> RootPath, newValue |-> modified]>>
        /\ (~absent(original) /\ absent(modified)) =>
             results = <<[type |-> "removed", path |-> RootPath, oldValue |-> original]>>
        /\ (absent(original) /\ absent(modified)) => results = <<>>

C5_Witness ==
  /\ pc = "compared"
  /\ original = Undefined
  /\ IsContainer(modified)
  /\ Len(ObjectKeys(modified)) >= 2
  /\ path = ""
  /\ Len(results) = 1

C5_WitnessRemoved ==
  /\ pc = "compared"
  /\ modified = Null
  /\ IsContainer(original)
  /\ Len(results) = 1
  /\ results[1].type = "removed"

\* The path of index i under the outermost call
ItemPathOf(i) == path \o "[" \o ToString(i) \o "]"

\* C6: two arrays are compared index by index, in increasing order: an index
\* at or beyond original's length gives one added record with newValue =
\* modified[i], an index at or beyond modified's length gives one removed
\* record with oldValue = original[i], an index in both gives the records of
\* the comparison of the two elements at path[i]; [1,2,3] against [1,2] is
\* one removed record at [2] with oldValue 3.
C6_ArrayPositional ==
  (pc = "compared" /\ original.t = "array" /\ modified.t = "array") =>
    /\ LET lo == Len(original.items)
           lm == Len(modified.items)
           at(i) ==
             IF i >= lo THEN <<[type |-> "added", path |-> ItemPathOf(i),
                                newValue |-> modified.items[i + 1]]>>
             ELSE IF i >= lm THEN <<[type |-> "removed", path |-> ItemPathOf(i),
                                     oldValue |-> original.items[i + 1]]>>
             ELSE compareJson(original.items[i + 1], modified.items[i + 1], ItemPathOf(i))
       IN  results = Flatten([j \in 1..(IF lo >= lm THEN lo ELSE lm) |-> at(j - 1)])
    /\ (/\ original = Arr(<<Num(1), Num(2), Num(3)>>)
        /\ modified = Arr(<<Num(1), Num(2)>>)
        /\ path = "") =>
         results = <<[type |-> "removed", path |-> "[2]", oldValue |-> Num(3)]>>

C6_Witness ==
  /\ pc = "compared"
  /\ original = Arr(<<Num(1), Num(2), Num(3)>>)
  /\ modified = Arr(<<Num(1), Num(2)>>)
  /\ path = ""
  /\ Len(results) = 1

C6_WitnessAdded ==
  /\ pc = "compared"
  /\ original.t = "array"
  /\ modified.t = "array"
  /\ Len(original.items) = 1
  /\ Len(modified.items) = 2
  /\ original.items[1] # modified.items[1]
  /\ Len(results) = 2

\* The keys in visiting order: original's keys in original's order, then
\* the keys only modified has, in modified's order
UnionOrder(o, m) ==
  ObjectKeys(o) \o SelectSeq(ObjectKeys(m), LAMBDA k : k \notin OwnKeys(o))

\* C7: two objects are compared key by key over the union of their keys,
\* original's keys first and then the keys only modified has; a key only in
\* modified gives one added record, a key only in original one removed
\* record, a key in both the records of the comparison of the two values,
\* each at path.key (the bare key when the path is empty); the output is the
\* concatenation in visiting order.
C7_ObjectKeyUnion ==
  (pc = "compared" /\ original.t = "object" /\ modified.t = "object") =>
    LET order == UnionOrder(original, modified)
        at(k) ==
          IF k \notin OwnKeys(original)
            THEN <<[type |-> "added", path |-> KeyPathOf(k), newValue |-> OwnValue(modified, k)]>>
          ELSE IF k \notin OwnKeys(modified)
            THEN <<[type |-> "removed", path |-> KeyPathOf(k), oldValue |-> OwnValue(original, k)]>>
          ELSE compareJson(OwnValue(original, k), OwnValue(modified, k), KeyPathOf(k))
    IN  results = Flatten([j \in 1..Len(order) |-> at(order[j])])

\* C8: two non-null scalars of the same runtime type give exactly one
\* modified record (oldValue = original, newValue = modified) when they
\* differ and no record when they are equal; no record of any call is of
\* type unchanged.
C8_ScalarRule ==
  /\ (pc = "compared" /\ IsScalar(original) /\ IsScalar(modified) /\ original.t = modified.t) =>
       results = IF original = modified THEN <<>>
                 ELSE <<[type |-> "modified", path |-> RootPath,
                         oldValue |-> original, newValue |-> modified]>>
  /\ "unchanged" \notin (Types(results) \cup Types(reversed) \cup Types(selfResults))

C8_Witness ==
  /\ pc = "compared"
  /\ original = Num(1)
  /\ modified = Num(2)
  /\ Len(results) = 1

C8_WitnessEqual ==
  /\ pc = "compared"
  /\ original = Str("x")
  /\ modified = Str("x")
  /\ results = <<>>

\* C9: no two records of one compareJson call carry the same path.
C9_PathUnique ==
  pc = "compared" =>
    \A i, j \in 1..Len(results) : i # j => results[i].path # results[j].path

\* C10: a record has an oldValue field exactly when its type is removed or
\* modified, and a newValue field exactly when its type is added or
\* modified.
C10_FieldPresence ==
  \A recs \in {results, reversed, selfResults} :
    \A i \in 1..Len(recs) :
      /\ "oldValue" \in DOMAIN recs[i] <=> recs[i].type \in {"removed", "modified"}
      /\ "newValue" \in DOMAIN recs[i] <=> recs[i].type \in {"added", "modified"}

C10_Witness ==
  /\ pc = "swapped"
  /\ Types(results) = {"removed", "modified"}
  /\ Types(reversed) = {"added", "modified"}
  /\ original.t = "array"

(***************************************************************************)
(* Properties of the structural renderer                                   *)
(***************************************************************************)
BothArrays == original.t = "array" /\ modified.t = "array"

BothObjects == original.t = "object" /\ modified.t = "object"

IsStructural(line) == "isStructural" \in DOMAIN line /\ line.isStructural

HasKey(line, k) == "key" \in DOMAIN line /\ line.key = k

\* The lines of the outermost level that carry key k
LinesOfKey(k) == SelectSeq(diffLines, LAMBDA line : line.indent = 1 /\ HasKey(line, k))

\* The keys both roots hold and the keys either holds (arrays: indices)
RootKeys(v) == IF v.t = "array" THEN Range(IndexKeys(Len(v.items))) ELSE OwnKeys(v)

RootValue(v, k) ==
  IF v.t = "array" THEN v.items[(CHOOSE i \in 1..Len(v.items) : ToString(i - 1) = k)]
  ELSE OwnValue(v, k)

\* The keys of the two roots in the order the claim gives: the indices in
\* increasing order for two arrays, the sorted union for two objects
VisitOrder ==
  IF BothArrays
    THEN [i \in 1..(IF Len(original.items) >= Len(modified.items)
                      THEN Len(original.items) ELSE Len(modified.items)) |-> ToString(i - 1)]
    ELSE SelectSeq(SortOrder, LAMBDA k : k \in OwnKeys(original) \cup OwnKeys(modified))

\* C13: at every level the keys of both values are visited, sorted for two
\* objects whatever the insertion order, in index order for two arrays; the
\* output is a pre-order walk: a container's open line, its children's
\* lines, its close line.
C13_RenderOrder ==
  (pc = "rendered" /\ (BothArrays \/ BothObjects)) =>
    LET seg(k) == DiffLoop(original, modified, 1, <<k>>)
        nested(k) == /\ k \in RootKeys(original) \cap RootKeys(modified)
                     /\ IsContainer(RootValue(original, k))
                     /\ IsContainer(RootValue(modified, k))
    IN  /\ diffLines = <<diffLines[1]>>
                         \o Flatten([j \in 1..Len(VisitOrder) |-> seg(VisitOrder[j])])
                         \o <<diffLines[Len(diffLines)]>>
        /\ IsStructural(diffLines[1]) /\ IsStructural(diffLines[Len(diffLines)])
        /\ \A j \in 1..Len(VisitOrder) :
             nested(VisitOrder[j]) =>
               LET lines == seg(VisitOrder[j])
               IN  /\ Len(lines) >= 2
                   /\ IsStructural(lines[1])
                   /\ IsStructural(lines[Len(lines)])
                   /\ SubSeq(lines, 2, Len(lines) - 1)
                        = generateDiff(RootValue(original, VisitOrder[j]),
                                       RootValue(modified, VisitOrder[j]), 2)

C13_Witness ==
  /\ pc = "rendered"
  /\ BothObjects
  /\ ObjectKeys(original) = <<"b", "a">>
  /\ ObjectKeys(modified) = <<"a">>
  /\ Len(diffLines) = 4
  /\ HasKey(diffLines[2], "a")
  /\ HasKey(diffLines[3], "b")

\* The value printer and the prefix of the claim
KeyPrefix(k) == IF BothArrays THEN "" ELSE "\"" \o k \o "\": "

\* C14: a key absent from original gives exactly one added line, content =
\* indentation + key prefix (none for an array element) + the printed
\* modified value, newValue = that printed value; a key absent from
\* modified gives the mirrored removed line; equal scalars give one
\* unchanged line with the printed value, unequal scalars one modified line
\* carrying both printed values.
C14_LeafLines ==
  (pc = "rendered" /\ (BothArrays \/ BothObjects)) =>
    \A k \in RootKeys(original) \cup RootKeys(modified) :
      /\ k \notin RootKeys(original) =>
           LinesOfKey(k) =
             <<[type |-> "added", key |-> k, indent |-> 1,
                content |-> "  " \o KeyPrefix(k) \o Stringify(RootValue(modified, k)),
                newValue |-> Stringify(RootValue(modified, k))]>>
      /\ k \notin RootKeys(modified) =>
           LinesOfKey(k) =
             <<[type |-> "removed", key |-> k, indent |-> 1,
                content |-> "  " \o KeyPrefix(k) \o Stringify(RootValue(original, k)),
                oldValue |-> Stringify(RootValue(original, k))]>>
      /\ (/\ k \in RootKeys(original) \cap RootKeys(modified)
          /\ IsScalar(RootValue(original, k))
          /\ IsScalar(RootValue(modified, k))) =>
           LET o == RootValue(original, k)
               m == RootValue(modified, k)
           IN  /\ Len(LinesOfKey(k)) = 1
               /\ o = m =>
                    LinesOfKey(k)[1] =
                      [type |-> "unchanged", key |-> k, indent |-> 1,
                       content |-> "  " \o KeyPrefix(k) \o Stringify(o)]
               /\ o # m =>
                    /\ LinesOfKey(k)[1].type = "modified"
                    /\ LinesOfKey(k)[1].oldValue = Stringify(o)
                    /\ LinesOfKey(k)[1].newValue = Stringify(m)

\* The runtime type the claim distinguishes: null, number, string, array
\* and object are five different types
RuntimeType(v) == v.t

\* C15: a key present in both values whose two values have different
\* runtime types (object against array and container against null
\* included) gives exactly one modified line carrying both printed values,
\* and nothing is rendered inside either value.
C15_TypeMismatch ==
  (pc = "rendered" /\ (BothArrays \/ BothObjects)) =>
    \A k \in RootKeys(original) \cap RootKeys(modified) :
      RuntimeType(RootValue(original, k)) # RuntimeType(RootValue(modified, k)) =>
        /\ Len(LinesOfKey(k)) = 1
        /\ LinesOfKey(k)[1].type = "modified"
        /\ LinesOfKey(k)[1].oldValue = Stringify(RootValue(original, k))
        /\ LinesOfKey(k)[1].newValue = Stringify(RootValue(modified, k))
        /\ DiffLoop(original, modified, 1, <<k>>) = LinesOfKey(k)

\* The texts a key can put before a bracket
KeyDisplays == {""} \cup {"\"" \o SortOrder[i] \o "\": " : i \in 1..Len(SortOrder)}

\* The bracket a structural line opens or closes, "" when it does neither
Opens(line) ==
  IF \E kd \in KeyDisplays : line.content = Repeat("  ", line.indent) \o kd \o "{" THEN "{"
  ELSE IF \E kd \in KeyDisplays : line.content = Repeat("  ", line.indent) \o kd \o "[" THEN "["
  ELSE ""

Closes(line) ==
  IF line.content = Repeat("  ", line.indent) \o "}" THEN "{"
  ELSE IF line.content = Repeat("  ", line.indent) \o "]" THEN "["
  ELSE ""

\* Reads the lines from line i on with the open brackets on a stack (each
\* [indent, kind]): every structural line opens a pair or closes the pair on
\* top with the same indent and kind, every line sits one level inside the
\* pair on top, and no pair is left open.
RECURSIVE Nested(_, _, _)
Nested(lines, i, open) ==
  IF i > Len(lines) THEN open = <<>>
  ELSE
    LET line == lines[i]
        level == IF open = <<>> THEN 0 ELSE open[Len(open)].indent + 1
    IN  IF ~IsStructural(line) THEN
          /\ open # <<>>
          /\ line.indent = level
          /\ Nested(lines, i + 1, open)
        ELSE IF Opens(line) # "" THEN
          /\ line.indent = level
          /\ Nested(lines, i + 1, Append(open, [indent |-> line.indent, kind |-> Opens(line)]))
        ELSE
          /\ Closes(line) # ""
          /\ open # <<>>
          /\ open[Len(open)] = [indent |-> line.indent, kind |-> Closes(line)]
          /\ Nested(lines, i + 1, SubSeq(open, 1, Len(open) - 1))

\* C16: every structural line is unchanged; the structural lines are
\* properly nested open/close pairs of the same indent and bracket kind,
\* every line between a pair is one level deeper than the pair; the
\* outermost pair is [ ] for two arrays and { } for two objects.
C16_Structure ==
  pc = "rendered" =>
    /\ \A i \in 1..Len(diffLines) : IsStructural(diffLines[i]) => diffLines[i].type = "unchanged"
    /\ Nested(diffLines, 1, <<>>)
    /\ diffLines[1].indent = 0 /\ diffLines[Len(diffLines)].indent = 0
    /\ BothArrays => diffLines[1].content = "[" /\ diffLines[Len(diffLines)].content = "]"
    /\ BothObjects => diffLines[1].content = "{" /\ diffLines[Len(diffLines)].content = "}"

C16_Witness ==
  /\ pc = "rendered"
  /\ BothArrays
  /\ Len(diffLines) >= 5
  /\ \E i \in 2..(Len(diffLines) - 1) : IsStructural(diffLines[i]) /\ Opens(diffLines[i]) = "{"
  /\ \E i \in 2..(Len(diffLines) - 1) : diffLines[i].indent = 2

\* Two documents of identical structure: the same container kind, keys and
\* lengths everywhere; only leaves (numbers, strings, null) may differ
RECURSIVE SameShape(_, _)
SameShape(a, b) ==
  IF a.t = "array" /\ b.t = "array" THEN
    /\ Len(a.items) = Len(b.items)
    /\ \A i \in 1..Len(a.items) : SameShape(a.items[i], b.items[i])
  ELSE IF a.t = "object" /\ b.t = "object" THEN
    /\ OwnKeys(a) = OwnKeys(b)
    /\ \A k \in OwnKeys(a) : SameShape(OwnValue(a, k), OwnValue(b, k))
  ELSE ~IsContainer(a) /\ ~IsContainer(b)

RECURSIVE Sum(_)
Sum(ns) == IF ns = <<>> THEN 0 ELSE Head(ns) + Sum(Tail(ns))

Children(v) ==
  IF v.t = "array" THEN v.items
  ELSE IF v.t = "object" THEN [i \in 1..Len(v.entries) |-> v.entries[i].v]
  ELSE <<>>

RECURSIVE LeafCount(_)
LeafCount(v) ==
  IF IsContainer(v) THEN Sum([i \in 1..Len(Children(v)) |-> LeafCount(Children(v)[i])]) ELSE 1

RECURSIVE ContainerCount(_)
ContainerCount(v) ==
  IF IsContainer(v)
    THEN 1 + Sum([i \in 1..Len(Children(v)) |-> ContainerCount(Children(v)[i])])
    ELSE 0

\* C18: for two containers of identical structure the lines hold exactly one
\* non-structural line per leaf and exactly two structural lines per
\* container, the root included.
C18_LineCount ==
  (pc = "rendered" /\ IsContainer(original) /\ SameShape(original, modified)) =>
    /\ Len(SelectSeq(diffLines, LAMBDA line : ~IsStructural(line))) = LeafCount(original)
    /\ Len(SelectSeq(diffLines, IsStructural)) = 2 * ContainerCount(original)

C18_Witness ==
  /\ pc = "rendered"
  /\ IsContainer(original)
  /\ SameShape(original, modified)
  /\ original # modified
  /\ ContainerCount(original) = 1
  /\ LeafCount(original) >= 1
  /\ Len(diffLines) = 2 + LeafCount(original)
  /\ "modified" \in Types(diffLines)

\* How many entries of each classification a sequence holds
CountOf(recs, type) == Len(SelectSeq(recs, LAMBDA r : r.type = type))

\* C19: for two roots of the same container kind the lines that are not
\* unchanged correspond one to one to the records of compareJson, with the
\* same classification: as many added, removed and modified lines as
\* added, removed and modified records.
C19_SameRules ==
  (pc = "rendered" /\ (BothArrays \/ BothObjects)) =>
    \A type \in {"added", "removed", "modified"} :
      CountOf(diffLines, type) = CountOf(results, type)

(***************************************************************************)
(* Properties of the walks and of the diff view                            *)
(***************************************************************************)
RECURSIVE NestingDepth(_)
\* How many containers deep a document goes: 0 for a scalar
NestingDepth(v) ==
  IF ~IsContainer(v) THEN 0
  ELSE LET below == {NestingDepth(Children(v)[i]) : i \in 1..Len(Children(v))}
       IN  1 + (IF below = {} THEN 0 ELSE CHOOSE d \in below : \A e \in below : e <= d)

\* The nested calls in progress never outnumber the nesting depth of
\* either input
DepthBounded ==
  \A v \in {original, modified} : Len(stack) <= 1 + NestingDepth(v)

\* What has been pushed when the outermost call returns is the result
Returned ==
  /\ pc = "returned"
  /\ stack = <<>>
  /\ walker = "compareJson" => out = compareJson(original, modified, path)
  /\ walker = "generateDiff" => out = generateDiff(original, modified, 1)

\* C11: on any two JSON documents compareJson and generateDiff each run to
\* their return and return a result, and the depth of the recursion never
\* exceeds the nesting depth of the inputs.
C11_Termination ==
  /\ [](DepthBounded /\ (pc = "returned" => Returned))
  /\ <>Returned

C11_Witness ==
  /\ pc = "walking"
  /\ walker = "compareJson"
  /\ Len(stack) = 3
  /\ NestingDepth(original) = 2
  /\ NestingDepth(modified) = 2
  /\ Top.phase = "enter"

\* The texts compare() parses and the documents it gets
Fails(text) == ~JsonParse(text).ok

Parsed(text) == JsonParse(OrDefault(text)).data

\* A step that runs compare(): the button, or swap once hasCompared is set
RunsCompare == Compare \/ (Swap /\ hasCompared)

SameContainerKind(o, m) == (o.t = "array" /\ m.t = "array") \/ (o.t = "object" /\ m.t = "object")

\* C17: when the two parsed roots are not the same container kind, compare
\* does not run the walk and leaves one whole-document modified line; two
\* different roots are never shown without an added, removed or modified
\* line.
C17_RootSpecialCase ==
  [][(RunsCompare /\ error' = <<>>) =>
       LET o == Parsed(originalJson')
           m == Parsed(modifiedJson')
       IN  ~SameContainerKind(o, m) =>
             /\ Len(diffLines') = 1
             /\ diffLines'[1].type = "modified"
             /\ o # m => \E i \in 1..Len(diffLines') :
                            diffLines'[i].type \in {"added", "removed", "modified"}]_vars

\* What compare() must leave when the text of a side is rejected
Aborted ==
  /\ diffLines' = <<>>
  /\ originalHistory' = originalHistory
  /\ modifiedHistory' = modifiedHistory

\* C20 as stated: error.original is set exactly when the original text fails
\* to parse, error.modified exactly when the modified text does; if either
\* is set no line is produced and no history changes.
C20_ParseFailureAnyText ==
  [][RunsCompare =>
       /\ ("original" \in DOMAIN error') <=> Fails(originalJson')
       /\ ("modified" \in DOMAIN error') <=> Fails(modifiedJson')
       /\ (DOMAIN error' # {}) => Aborted]_vars

\* C20: error.original is set exactly when the original text is not empty
\* and fails to parse (an empty editor is compared as {}), and the same for
\* error.modified, each side on its own; if either is set no line is
\* produced and neither history changes.
C20_ParseFailure ==
  [][RunsCompare =>
       /\ ("original" \in DOMAIN error') <=> (originalJson' # "" /\ Fails(originalJson'))
       /\ ("modified" \in DOMAIN error') <=> (modifiedJson' # "" /\ Fails(modifiedJson'))
       /\ (DOMAIN error' # {}) => Aborted]_vars

C20_Witness ==
  /\ hasCompared
  /\ DOMAIN error = {"original"}
  /\ originalJson \in BadTexts
  /\ modifiedJson \notin BadTexts \cup {""}
  /\ diffLines = <<>>
  /\ originalHistory # <<>>
  /\ modifiedHistory = <<>>

\* C25: after a compare of two texts that parse, diffLines is empty and the
\* noDiff toast is shown exactly when the flat differ finds no added,
\* removed or modified location in the two documents; otherwise the line
\* list is not empty and the compareSuccess toast is shown.
C25_NoDiffOutcome ==
  [][(RunsCompare /\ error' = <<>>) =>
       IF compareJson(Parsed(originalJson'), Parsed(modifiedJson'), "") = <<>>
         THEN diffLines' = <<>> /\ "noDiff" \in Range(toast')
         ELSE diffLines' # <<>> /\ "compareSuccess" \in Range(toast')]_vars

(***************************************************************************)
(* Properties of the history store                                         *)
(***************************************************************************)
ContentsOf(list) == {list[i].content : i \in 1..Len(list)}

NoDuplicates(list) ==
  \A i, j \in 1..Len(list) : i # j => list[i].content # list[j].content

\* The entries of a list other than the one holding content, in order
Others(list, content) == SelectSeq(list, LAMBDA item : item.content # content)

EntryOf(list, content) == list[CHOOSE i \in 1..Len(list) : list[i].content = content]

\* C21: no list of a store ever holds a content twice; adding a content
\* the list holds leaves the length as it is, puts that entry at index 0
\* with the timestamp of the call (not earlier than the one it had), and
\* keeps all other entries in their order.
C21_HistoryDedup ==
  /\ [](\A inst \in Instances : NoDuplicates(stores[inst]))
  /\ [][\A inst \in Instances, content \in AddedContents :
          (AddToHistoryCall(inst, content) /\ content \in ContentsOf(stores[inst])) =>
            /\ Len(stores'[inst]) = Len(stores[inst])
            /\ stores'[inst][1].content = content
            /\ stores'[inst][1].timestamp = now
            /\ stores'[inst][1].timestamp >= EntryOf(stores[inst], content).timestamp
            /\ Others(stores'[inst], content) = Others(stores[inst], content)]_vars

C21_Witness ==
  /\ Len(stores["A"]) = MAX_HISTORY_ITEMS
  /\ stores["A"][1].content = "c2"
  /\ stores["A"][1].timestamp = 2
  /\ stores["A"][2].content = "c1"
  /\ stores["A"][3].content = "c3"

MostRecentFirst(list) ==
  \A i \in 1..(Len(list) - 1) : list[i].timestamp >= list[i + 1].timestamp

\* C22: a list never holds more than 50 entries, its timestamps never
\* increase from index 0 on, and a new content added to a list of 50 goes
\* to index 0 while the last entry, the oldest, is the one dropped.
C22_HistoryCap ==
  /\ [](\A inst \in Instances :
          Len(stores[inst]) <= 50 /\ MostRecentFirst(stores[inst]))
  /\ [][\A inst \in Instances, content \in AddedContents :
          (/\ AddToHistoryCall(inst, content)
           /\ content # " "
           /\ content \notin ContentsOf(stores[inst])
           /\ Len(stores[inst]) = 50) =>
            /\ Len(stores'[inst]) = 50
            /\ stores'[inst][1].content = content
            /\ SubSeq(stores'[inst], 2, 50) = SubSeq(stores[inst], 1, 49)]_vars

C22_Witness ==
  /\ Len(stores["A"]) = 50
  /\ stores["A"][1].content = "x"
  /\ stores["A"][1].timestamp = 2
  /\ stores["A"][2].content = "c1"
  /\ stores["A"][50].content = "c49"

Persisted(inst) == ParseItems(storage[GetStorageKey(EditorKey(inst))])

\* A call on the store of inst that writes
Writes(inst) ==
  \/ \E content \in AddedContents \ {" "} : AddToHistoryCall(inst, content)
  \/ \E index \in 0..(MAX_HISTORY_ITEMS - 1) : RemoveFromHistoryCall(inst, index)
  \/ ClearHistoryCall(inst)

\* C29: after every call that writes, the list persisted under the store's
\* key is the store's list and the lists under the other keys are as
\* before; and with two stores on one key, every addToHistory leaves all
\* contents persisted so far, and its own, persisted (below the cap).
C29_Persistence ==
  [][\A inst \in Instances :
       /\ Writes(inst) =>
            /\ Persisted(inst)' = stores'[inst]
            /\ \A key \in StorageKeys \ {GetStorageKey(EditorKey(inst))} :
                 storage'[key] = storage[key]
       /\ \A content \in AddedContents \ {" "} :
            (AddToHistoryCall(inst, content) /\ Len(Persisted(inst)) < MAX_HISTORY_ITEMS) =>
              ContentsOf(Persisted(inst)) \cup {content} \subseteq ContentsOf(Persisted(inst)')]_vars

(***************************************************************************)
(* Properties of the escape utilities                                      *)
(***************************************************************************)
\* What escaping makes of one character
EscapedChar(c) ==
  IF c = Backslash THEN <<Backslash, Backslash>>
  ELSE IF c = Quote THEN <<Backslash, Quote>>
  ELSE <<c>>

RECURSIVE EscapedCharwise(_)
EscapedCharwise(s) ==
  IF s = <<>> THEN <<>> ELSE EscapedChar(Head(s)) \o EscapedCharwise(Tail(s))

\* C23: escapeJson doubles every backslash and prefixes every double quote
\* with a backslash, and unescapeJson applied to the escaped string gives
\* the string back.
C23_EscapeRoundTrip ==
  /\ escapePc \in {"escaped", "unescaped"} => escapeOut = EscapedCharwise(escapeIn)
  /\ escapePc = "unescaped" => unescapeOut = escapeIn

\* A backslash followed by a quote has gone through the round trip
C23_Witness ==
  /\ escapePc = "unescaped"
  /\ escapeIn = <<Backslash, Quote>>
  /\ escapeOut = <<Backslash, Backslash, Backslash, Quote>>
  /\ unescapeOut = escapeIn

(***************************************************************************)
(* Properties of the toasts                                                *)
(***************************************************************************)
ShownIds == {toasts[i].id : i \in 1..Len(toasts)}

Shown(id) == id \in ShownIds

\* The list without the toasts of one id, the others in their order
Without(list, id) == SelectSeq(list, LAMBDA t : t.id # id)

\* Every id handed out so far is below the counter, no two shown toasts
\* share one, and the counter never goes back
IdsAreFresh ==
  /\ [](/\ ShownIds \cup timers \subseteq 0..(nextId - 1)
        /\ \A i, j \in 1..Len(toasts) : toasts[i].id = toasts[j].id => i = j)
  /\ [][/\ nextId' >= nextId
        /\ \A id \in ToastIds :
             id \in timers' \ timers =>
               /\ id = nextId
               /\ nextId' = nextId + 1
               /\ toasts' = Append(toasts, toasts'[Len(toasts')])
               /\ toasts'[Len(toasts')].id = id]_vars

\* A timer that goes off, and a click, take the toast of their id out of
\* the list and nothing else; when the toast is gone already nothing changes
RemovesOnlyItsOwn ==
  [][\A id \in ToastIds :
       (id \in timers \ timers' \/ (Shown(id) /\ ~Shown(id)')) =>
         /\ toasts' = Without(toasts, id)
         /\ ~Shown(id) => toasts' = toasts]_vars

\* C30: every toast gets an id no toast had before, is removed from the
\* list in the end by its timer, the timer or a click removes the toast of
\* that id only, and removing a dismissed toast changes nothing.
C30_ToastLifecycle ==
  /\ IdsAreFresh
  /\ RemovesOnlyItsOwn
  /\ \A id \in ToastIds : Shown(id) ~> ~Shown(id)
  /\ \A id \in ToastIds : [](id \in timers => <>(id \notin timers /\ ~Shown(id)))

\* Toast 0 was dismissed and its timer has gone off since, while toast 1
\* is still shown and waits for its timer
C30_Witness ==
  /\ nextId = 2
  /\ ShownIds = {1}
  /\ timers = {1}

(***************************************************************************)
(* Properties of the JSON editor                                           *)
(***************************************************************************)
\* The step is a click on the button of the mode with a non-blank input
Clicks(mode) ==
  /\ Len(pending') = Len(pending) + 1
  /\ pending'[Len(pending')].mode = mode

Parses(text) == TrimChars(text) # <<>> /\ ParseChars(text).ok

PrettyPrinted(text) == StringifyChars(ParseChars(text).data, 2, 0)

\* What a change of the input leaves in the output, the flag and the error
AutoParse ==
  [][inputJson' # inputJson =>
       /\ editorError' = <<>>
       /\ isValidJson' = Parses(inputJson')
       /\ outputJson' = IF Parses(inputJson') THEN PrettyPrinted(inputJson') ELSE <<>>]_vars

\* C24: a change of the input leaves the pretty-printed form and
\* isValidJson true if the input parses, an empty output and isValidJson
\* false otherwise, and error null; Format on input that does not parse
\* sets error and leaves the output empty, Format on input that parses
\* leaves its pretty-printed form in the output.
C24_AutoParseAndFormat ==
  /\ AutoParse
  /\ [][Clicks("format") =>
          IF ParseChars(inputJson).ok
            THEN editorError' = <<>> /\ outputJson' = PrettyPrinted(inputJson)
            ELSE editorError' # <<>> /\ outputJson' = <<>>]_vars

\* C26: the deferred callback of an invocation of processJson that failed
\* adds nothing to the history, whatever happened since the invocation.
C26_NoSaveAfterFailure ==
  [][(pending # <<>> /\ pending' = Tail(pending) /\ Head(pending).failed) =>
       editorHistory' = editorHistory]_vars

(***************************************************************************)
(* Properties of the two-way JSON editor                                   *)
(***************************************************************************)
\* The step runs a watcher job
WatcherRuns == event'.runs = event.runs + 1

PanesUnchanged == inputJson' = inputJson /\ outputJson' = outputJson

\* While isSyncing is set no step writes a pane, and isSyncing is set by
\* every watcher and every processJson that writes one and stays set until
\* the jobs of the flush have run
NoWriteBack ==
  /\ [][isSyncing => PanesUnchanged]_vars
  /\ [][(~PanesUnchanged /\ (WatcherRuns \/ ticks' > ticks)) => isSyncing']_vars
  /\ [](isSyncing <=> ticks > 0)

\* C27: a pane written by a watcher or by processJson under isSyncing is
\* not written back by the other watcher; after a user event at most two
\* watcher jobs run and the editor comes to rest with isSyncing false; a
\* text that parses, put into the output pane by the user, is copied to the
\* input pane and stays in the output pane as it was typed.
\* Whenever a job or a nextTick callback waits, the editor comes to rest
ComesToRest == ~Quiet ~> (Quiet /\ ~isSyncing)

C27_NoFeedbackLoop ==
  /\ NoWriteBack
  /\ ComesToRest
  /\ [](/\ event.runs <= 2
        /\ (Quiet /\ event.kind = "output" /\ Parses(event.text)) =>
             (inputJson = event.text /\ outputJson = event.text))

\* The compact form of the object was typed into the output pane over
\* another text, both watchers have run and the editor is at rest
C27_Witness ==
  /\ Quiet
  /\ event.kind = "output"
  /\ event.text = StringifyChars(Obj(<<[k |-> "a", v |-> Num(1)]>>), 0, 0)
  /\ event.runs = 2
  /\ inputJson = event.text
  /\ outputJson = event.text
  /\ calls > 1

\* The step runs the callback of the save timer t
Fires(t) == Quiet /\ t \in saveTimers /\ t.left = 0 /\ saveTimers' = saveTimers \ {t}

\* C28: at most one save timer is set at any time; every edit that parses
\* sets it anew to 1000 ms with its content (the 2-space form of the text
\* for the input pane, the text itself for the output pane), so of a burst
\* only the last edit is saved, 1000 ms after it; the history is added to
\* by a timer that is due only, with the content of that timer, and not
\* when the trimmed content is lastSavedHash.
C28_DebouncedSave ==
  /\ [](Cardinality(saveTimers) <= 1)
  /\ [][(event.runs = 0 /\ WatcherRuns /\ event.kind \in {"input", "output"}
           /\ Parses(event.text)) =>
          saveTimers' = {[id |-> historyDebounceTimer',
                          content |-> IF event.kind = "input"
                                        THEN PrettyPrinted(event.text)
                                        ELSE event.text,
                          left |-> HISTORY_DEBOUNCE_MS]}]_vars
  /\ [][editorHistory' # editorHistory =>
          \E t \in saveTimers :
            /\ Fires(t)
            /\ TrimChars(t.content) # lastSavedHash
            /\ editorHistory'[1] = t.content
            /\ lastSavedHash' = TrimChars(t.content)]_vars
  /\ [][\A t \in saveTimers :
          (Fires(t) /\ TrimChars(t.content) = lastSavedHash) =>
            editorHistory' = editorHistory]_vars

\* Two edits of the input were made, the second before the timer of the
\* first was due, and the one save that followed holds the second text
C28_Witness ==
  /\ calls = 2
  /\ event.kind = "input"
  /\ event.text = <<"1">>
  /\ editorHistory = <<event.text>>
  /\ lastSavedHash = event.text
  /\ saveTimers = {}


====
